---- MODULE Spec2Model ----
(***************************************************************************)
(* Model of the fenwick-backend synchronisation scripts:                   *)
(*   sync-to-production.js  (smart sync:  syncData)                        *)
(*   replace-production.js  (full replace: replaceProduction)              *)
(* together with the REST handlers of server.js they talk to               *)
(* (GET /api/data, POST/PUT/DELETE /api/projects).                         *)
(*                                                                         *)
(* One behaviour is one run of one script against the production store.    *)
(* An action is the code between two awaits of the script: the remote      *)
(* request (or prompt) it waits for, and everything it does with the       *)
(* answer up to the next await.                                            *)
(***************************************************************************)
EXTENDS Integers, Sequences, FiniteSets, TLC

(***************************************************************************)
(* Bounds of the model                                                     *)
(***************************************************************************)
MaxId == 3

\* ids of the collections the plan is computed for on its own
PlanMaxId == 4

\* a local-data.json that lists an id more than once: ids and length of its list
DupMaxId == 2
DupMaxLen == 3

\* the same command run a second time: ids of its snapshots
AgainMaxId == 2

\* a sync run with another client of the API writing during the prompt: ids
StaleMaxId == 2

\* the runs followed to their end: ids of their snapshots
LiveMaxId == 2

\* migrate-data-smart.js: ids of the backup file and of production
MigMaxId == 3

\* two runs at the same time: ids of their snapshots, and the clock values
\* (milliseconds) their start-up can read
TwoMaxId == 2
TwoMaxStamp == 2

Ids == 1..MaxId

\* names a record of local-data.json may carry / a production row starts with
LocalNames == {"a", "b"}
ProdNames == {"a"}

\* what the operator may type at a prompt
Answers == {"yes", "y", "YES", "no", "REPLACE", "replace"}

\* how one remote request can end:
\*   ok            2xx response
\*   notok         non-2xx response with a JSON error body
\*   notok_badjson non-2xx response whose body is not JSON (response.json() throws)
\*   throw         fetch() itself rejects (network error)
Outcomes == {"ok", "notok", "notok_badjson", "throw"}

(***************************************************************************)
(* JavaScript values                                                       *)
(* A scalar is a pair <<tag, text>>; a mapping (JS object) is the          *)
(* sequence of its <<key, value>> pairs in insertion order.                *)
(***************************************************************************)
JSnull == <<"null", "">>

JSstr(s) == <<"str", s>>

\* x || dflt  for a scalar x: null and '' are falsy
OrElse(x, dflt) == IF x = JSnull \/ x = JSstr("") THEN dflt ELSE x

\* two stage mappings with the same entries in different insertion order
StagesA == << <<"design", "2020">>, <<"build", "2021">> >>
StagesB == << <<"build", "2021">>, <<"design", "2020">> >>

\* one project as both export-local-data.js and GET /api/data build it:
\* the top-level keys always come in the order of the object literal
Project(id, name, client, stages) ==
  [id |-> id, name |-> name, client |-> client, stages |-> stages]

SettingsA == [startYear |-> 2011, colorMap |-> << <<"Office", "#111">> >>]
SettingsB == [startYear |-> 2011, colorMap |-> << <<"Office", "#222">> >>]

EmptySnapshot == [projects |-> <<>>, settings |-> SettingsA]

(***************************************************************************)
(* JSON.stringify / JSON.parse                                             *)
(* A text is the sequence of its tokens.                                   *)
(***************************************************************************)
RECURSIVE stringifyPairs(_, _)
stringifyPairs(pairs, first) ==
  IF pairs = <<>> THEN <<>>
  ELSE <<(IF first THEN "{" ELSE ","), Head(pairs)[1], ":", Head(pairs)[2]>>
         \o stringifyPairs(Tail(pairs), FALSE)

\* JSON.stringify of a mapping: keys in insertion order
stringifyMapping(pairs) ==
  IF pairs = <<>> THEN <<"{", "}">> ELSE stringifyPairs(pairs, TRUE) \o <<"}">>

\* JSON.parse of the text of a mapping
parseMapping(text) ==
  [i \in 1..((Len(text) - 1) \div 4) |-> <<text[4 * i - 2], text[4 * i]>>]

stringifyScalar(x) == IF x[1] = "null" THEN <<"null">> ELSE <<"'", x[2], "'">>

\* JSON.stringify of a project or of a settings object
JSONstringify(obj) ==
  IF "id" \in DOMAIN obj
  THEN <<"{", "id", ":", "'", ToString(obj.id), "'",
         ",", "name", ":", "'", obj.name, "'",
         ",", "client", ":">> \o stringifyScalar(obj.client)
       \o <<",", "stages", ":">> \o stringifyMapping(obj.stages) \o <<"}">>
  ELSE <<"{", "startYear", ":", ToString(obj.startYear),
         ",", "colorMap", ":">> \o stringifyMapping(obj.colorMap) \o <<"}">>

deepEqual(obj1, obj2) == JSONstringify(obj1) = JSONstringify(obj2)

(***************************************************************************)
(* server.js: the production store and its handlers (PostgreSQL branch)    *)
(* A row keeps stages as the JSON text the handler stored.                 *)
(***************************************************************************)
RowOf(project) ==
  [id |-> project.id,
   name |-> project.name,
   client |-> OrElse(project.client, JSstr("")),
   stages |-> stringifyMapping(project.stages)]

RECURSIVE OrderByNumber(_)
\* SELECT * FROM projects ORDER BY number (a row's number is its id here)
OrderByNumber(rows) ==
  IF rows = {} THEN <<>>
  ELSE LET first == CHOOSE r \in rows : \A q \in rows : r.id <= q.id
       IN  <<first>> \o OrderByNumber(rows \ {first})

RowToProject(p) == Project(p.id, p.name, p.client, parseMapping(p.stages))

\* app.get('/api/data')
getData(store) ==
  LET rows == OrderByNumber(store.projects)
  IN  [projects |-> [i \in 1..Len(rows) |-> RowToProject(rows[i])],
       settings |-> store.settings]

\* app.post('/api/projects'): INSERT fails on an id that is already a row
postCanSucceed(store, project) == \A r \in store.projects : r.id # project.id

postProject(store, project) ==
  [store EXCEPT !.projects = @ \cup {RowOf(project)}]

\* an update that inserts the row when no row has the id
putProject_upsert(store, projectId, project) ==
  IF \E r \in store.projects : r.id = projectId
  THEN [store EXCEPT !.projects =
          {IF r.id = projectId THEN [RowOf(project) EXCEPT !.id = projectId] ELSE r : r \in @}]
  ELSE [store EXCEPT !.projects = @ \cup {[RowOf(project) EXCEPT !.id = projectId]}]

\* app.put('/api/projects/:id'): UPDATE ... WHERE id = :id
putProject(store, projectId, project) ==
  [store EXCEPT !.projects =
     {IF r.id = projectId THEN [RowOf(project) EXCEPT !.id = projectId] ELSE r : r \in @}]

\* a handler that answers without deleting the row
deleteProject_keep(store, projectId) == store

\* app.delete('/api/projects/:id')
deleteProject(store, projectId) ==
  [store EXCEPT !.projects = {r \in @ : r.id # projectId}]

(***************************************************************************)
(* sync-to-production.js: the plan                                         *)
(***************************************************************************)
RECURSIVE MapKeys_all(_, _)
\* the keys of a plain list walk: an id listed twice is visited twice
MapKeys_all(list, seen) ==
  IF list = <<>> THEN <<>>
  ELSE <<Head(list).id>> \o MapKeys_all(Tail(list), seen)

RECURSIVE MapKeys(_, _)
\* key order of  new Map(list.map(p => [p.id, p])): first insertion of each id
MapKeys(list, seen) ==
  IF list = <<>> THEN <<>>
  ELSE IF Head(list).id \in seen THEN MapKeys(Tail(list), seen)
       ELSE <<Head(list).id>> \o MapKeys(Tail(list), seen \cup {Head(list).id})

MapHas(list, id) == \E i \in 1..Len(list) : list[i].id = id

\* value of the Map for an id: the last entry of the list with that id
MapGet(list, id) ==
  LET last == CHOOSE i \in 1..Len(list) :
                /\ list[i].id = id
                /\ \A j \in (i + 1)..Len(list) : list[j].id # id
  IN  list[last]

RECURSIVE findCreatesAndUpdates_always(_, _, _, _)
\* the first loop without the deepEqual test: every id of both sides is updated
findCreatesAndUpdates_always(keys, localList, prodList, acc) ==
  IF keys = <<>> THEN acc
  ELSE LET id == Head(keys)
           localProj == MapGet(localList, id)
       IN  IF ~MapHas(prodList, id)
           THEN findCreatesAndUpdates_always(Tail(keys), localList, prodList,
                  [acc EXCEPT !.toCreate = Append(@, localProj)])
           ELSE findCreatesAndUpdates_always(Tail(keys), localList, prodList,
                  [acc EXCEPT !.toUpdate =
                     Append(@, [local |-> localProj, prod |-> MapGet(prodList, id)])])

RECURSIVE findCreatesAndUpdates_byname(_, _, _, _)
\* the first loop comparing only the names of the two versions
findCreatesAndUpdates_byname(keys, localList, prodList, acc) ==
  IF keys = <<>> THEN acc
  ELSE LET id == Head(keys)
           localProj == MapGet(localList, id)
       IN  IF ~MapHas(prodList, id)
           THEN findCreatesAndUpdates_byname(Tail(keys), localList, prodList,
                  [acc EXCEPT !.toCreate = Append(@, localProj)])
           ELSE IF localProj.name # MapGet(prodList, id).name
           THEN findCreatesAndUpdates_byname(Tail(keys), localList, prodList,
                  [acc EXCEPT !.toUpdate =
                     Append(@, [local |-> localProj, prod |-> MapGet(prodList, id)])])
           ELSE findCreatesAndUpdates_byname(Tail(keys), localList, prodList, acc)

RECURSIVE findCreatesAndUpdates(_, _, _, _)
\* for (const [id, localProj] of localMap) { ... }
findCreatesAndUpdates(keys, localList, prodList, acc) ==
  IF keys = <<>> THEN acc
  ELSE LET id == Head(keys)
           localProj == MapGet(localList, id)
       IN  IF ~MapHas(prodList, id)
           THEN findCreatesAndUpdates(Tail(keys), localList, prodList,
                  [acc EXCEPT !.toCreate = Append(@, localProj)])
           ELSE IF ~deepEqual(localProj, MapGet(prodList, id))
           THEN findCreatesAndUpdates(Tail(keys), localList, prodList,
                  [acc EXCEPT !.toUpdate =
                     Append(@, [local |-> localProj, prod |-> MapGet(prodList, id)])])
           ELSE findCreatesAndUpdates(Tail(keys), localList, prodList, acc)

RECURSIVE findDeletes_inverted(_, _, _)
\* the delete loop with its test inverted: if (localMap.has(id))
findDeletes_inverted(keys, localList, prodList) ==
  IF keys = <<>> THEN <<>>
  ELSE LET rest == findDeletes_inverted(Tail(keys), localList, prodList)
       IN  IF MapHas(localList, Head(keys))
           THEN <<MapGet(prodList, Head(keys))>> \o rest
           ELSE rest

RECURSIVE findDeletes(_, _, _)
\* for (const [id, prodProj] of prodMap) { if (!localMap.has(id)) ... }
findDeletes(keys, localList, prodList) ==
  IF keys = <<>> THEN <<>>
  ELSE LET rest == findDeletes(Tail(keys), localList, prodList)
       IN  IF ~MapHas(localList, Head(keys))
           THEN <<MapGet(prodList, Head(keys))>> \o rest
           ELSE rest

EmptyPlan ==
  [toCreate |-> <<>>, toUpdate |-> <<>>, toDelete |-> <<>>, settingsChanged |-> FALSE]

\* an additive plan: nothing is ever deleted from production
computePlan_nodeletes(local, prod) ==
  LET cu == findCreatesAndUpdates(MapKeys(local.projects, {}), local.projects,
                                  prod.projects, EmptyPlan)
  IN  [toCreate |-> cu.toCreate,
       toUpdate |-> cu.toUpdate,
       toDelete |-> <<>>,
       settingsChanged |-> ~deepEqual(local.settings, prod.settings)]

\* lines 103-130 of syncData
computePlan(local, prod) ==
  LET cu == findCreatesAndUpdates(MapKeys(local.projects, {}), local.projects,
                                  prod.projects, EmptyPlan)
  IN  [toCreate |-> cu.toCreate,
       toUpdate |-> cu.toUpdate,
       toDelete |-> findDeletes(MapKeys(prod.projects, {}), local.projects, prod.projects),
       settingsChanged |-> ~deepEqual(local.settings, prod.settings)]

\* the test without its settings conjunct
alreadyInSync_nosettings(p) ==
  /\ Len(p.toCreate) = 0
  /\ Len(p.toUpdate) = 0
  /\ Len(p.toDelete) = 0

\* the test without the negation of settingsChanged
alreadyInSync_settings(p) ==
  /\ Len(p.toCreate) = 0
  /\ Len(p.toUpdate) = 0
  /\ Len(p.toDelete) = 0
  /\ p.settingsChanged

\* the test that ends the run as "Already in sync"
alreadyInSync(p) ==
  /\ Len(p.toCreate) = 0
  /\ Len(p.toUpdate) = 0
  /\ Len(p.toDelete) = 0
  /\ ~p.settingsChanged

(***************************************************************************)
(* State of one run                                                        *)
(***************************************************************************)
VARIABLES
  self,           \* the process the run-local variables below belong to
  others,         \* the run-local variables of the processes not running now
  files,          \* the backup files on disk: [name, data, by]
  backupName,     \* replace: the timestamp in BACKUP_FILE, taken at start-up
  awaiting,       \* the script is suspended in an await fetch(...)
  inflight,       \* requests of this run issued and not yet answered
  script,         \* which script runs: "sync", "replace", "backup", "migrate"
  autoConfirm,    \* process.argv.includes('--confirm')
  localFile,      \* local-data.json: [state, data]
  prodStore,      \* the production database behind the API: [projects, settings]
  localData,      \* const localData
  prodData,       \* const prodData
  plan,           \* toCreate, toUpdate, toDelete, settingsChanged
  pc,             \* the await the script is at
  idx,            \* position of the running for-of loop in its list
  answers,        \* the answers read from the prompt so far
  successCount,   \* sync: let successCount
  failCount,      \* sync: let failCount
  deleteResults,  \* replace: { deleted, failed }
  createResults,  \* replace: { created, failed }
  backupFile,     \* replace: what this run wrote to BACKUP_FILE: [written, data]
  calls,          \* every remote request issued so far: [method, id, ok]
  out,            \* the kinds of message printed so far
  exitCode        \* exit status of the process (meaningful once pc = "done")

vars == <<self, others, files, backupName, awaiting, inflight, script, autoConfirm, localFile, prodStore, localData, prodData, plan, pc,
          idx, answers, successCount, failCount, deleteResults, createResults,
          backupFile, calls, out, exitCode>>

RECURSIVE ListOf(_, _)
\* the projects a choice (id -> "none" or a name) stands for, in order of number
ListOf(choice, from) ==
  IF from > MaxId THEN <<>>
  ELSE (IF choice[from] = "none" THEN <<>>
        ELSE <<Project(from, choice[from], JSstr("c"), StagesA)>>)
       \o ListOf(choice, from + 1)

SeqToSet(s) == {s[i] : i \in 1..Len(s)}

\* the run-local variables when a process starts, before its first statement
RunStart ==
  /\ localData = EmptySnapshot
  /\ prodData = EmptySnapshot
  /\ plan = EmptyPlan
  /\ idx = 1
  /\ answers = <<>>
  /\ successCount = 0
  /\ failCount = 0
  /\ deleteResults = [deleted |-> 0, failed |-> 0]
  /\ createResults = [created |-> 0, failed |-> 0]
  /\ backupFile = [written |-> FALSE, data |-> EmptySnapshot]
  /\ calls = <<>>
  /\ out = {}
  /\ exitCode = 0
  /\ awaiting = FALSE
  /\ inflight = 0

\* a backup-data.json left by an earlier run of backup-data.js
OldBackup ==
  [name |-> <<"backup-data.json", 0>>,
   data |-> [projects |-> <<>>, settings |-> SettingsB], by |-> 0]

\* one run of sync-to-production.js or replace-production.js
InitReconcile ==
  /\ script \in {"sync", "replace"}
  /\ autoConfirm \in BOOLEAN
  /\ files = {}
  /\ pc = "load"
  /\ \/ /\ localFile \in {[state |-> st, data |-> EmptySnapshot] : st \in {"missing", "corrupt"}}
        /\ \E pf \in [Ids -> {"none"}] \cup [Ids -> ProdNames] :
             prodStore = [projects |-> {RowOf(p) : p \in SeqToSet(ListOf(pf, 1))},
                          settings |-> SettingsA]
     \/ \E lf \in [Ids -> {"none"} \cup LocalNames], ls \in {SettingsA, SettingsB},
           pf \in [Ids -> {"none"} \cup ProdNames] :
          /\ localFile = [state |-> "ok",
                          data |-> [projects |-> ListOf(lf, 1), settings |-> ls]]
          /\ prodStore = [projects |-> {RowOf(p) : p \in SeqToSet(ListOf(pf, 1))},
                          settings |-> SettingsA]

\* one run of backup-data.js, which takes no flag and never opens
\* local-data.json (here an export of an empty database)
InitBackup ==
  /\ script = "backup"
  /\ autoConfirm = FALSE
  /\ localFile = [state |-> "ok", data |-> EmptySnapshot]
  /\ files \in {{}, {OldBackup}}
  /\ pc = "fetch"
  /\ \E pf \in [Ids -> {"none"} \cup ProdNames] :
       prodStore = [projects |-> {RowOf(p) : p \in SeqToSet(ListOf(pf, 1))},
                    settings |-> SettingsA]

Init ==
  /\ self = 1
  /\ others = <<>>
  /\ backupName = 1
  /\ InitReconcile \/ InitBackup
  /\ RunStart

\* const BACKUP_FILE: replace-production.js names it after its start-up time,
\* backup-data.js uses one fixed name
BACKUP_FILE ==
  IF script = "backup" THEN <<"backup-data.json", 0>>
  ELSE <<"production-backup", backupName>>

\* a write that saves the settings and leaves the projects out
writeFileSync_settingsonly(fs, name, data, by) ==
  {f \in fs : f.name # name}
    \cup {[name |-> name, data |-> [data EXCEPT !.projects = <<>>], by |-> by]}

\* fs.writeFileSync(name, ...): creates the file or replaces its content
writeFileSync(fs, name, data, by) ==
  {f \in fs : f.name # name} \cup {[name |-> name, data |-> data, by |-> by]}

\* whether the script waits for the answer of the request it issues at this
\* position: every fetch is awaited
awaitsFetch_forgotten(position) == position # "delete"

awaitsFetch(position) == TRUE

Call(method, id, outcome) == [method |-> method, id |-> id, ok |-> (outcome = "ok")]

\* process.exit(1), or the end of the script
Exit(code) == pc' = "done" /\ exitCode' = code

(***************************************************************************)
(* sync-to-production.js: syncData                                         *)
(***************************************************************************)
toLowerCase(s) ==
  CASE s = "YES" -> "yes"
    [] s = "REPLACE" -> "replace"
    [] OTHER -> s

\* a prompt that only stops on "no"
isAffirmative_lax(answer) == toLowerCase(answer) # "no"

\* the answers that let the sync proceed
isAffirmative(answer) == ~(toLowerCase(answer) # "yes" /\ toLowerCase(answer) # "y")

\* the loops in the order create, delete, update
syncPhaseAfter_swapped(phase, p) ==
  IF phase = "prompt" /\ Len(p.toCreate) > 0 THEN "create"
  ELSE IF phase \in {"prompt", "create"} /\ Len(p.toDelete) > 0 THEN "delete"
  ELSE IF phase \in {"prompt", "create", "delete"} /\ Len(p.toUpdate) > 0 THEN "update"
  ELSE "finish"

\* the loop that runs after the given one: create, update, delete, then the summary
syncPhaseAfter(phase, p) ==
  IF phase = "prompt" /\ Len(p.toCreate) > 0 THEN "create"
  ELSE IF phase \in {"prompt", "create"} /\ Len(p.toUpdate) > 0 THEN "update"
  ELSE IF phase \in {"prompt", "create", "update"} /\ Len(p.toDelete) > 0 THEN "delete"
  ELSE "finish"

syncList(phase, p) ==
  CASE phase = "create" -> p.toCreate
    [] phase = "update" -> p.toUpdate
    [] phase = "delete" -> p.toDelete

\* a loop whose body lets a thrown network error escape to the outer catch
syncAfterOp_abort(phase, i, p, outcome) ==
  IF outcome = "throw" THEN [pc |-> "done", idx |-> i]
  ELSE IF i < Len(syncList(phase, p))
  THEN [pc |-> phase, idx |-> i + 1]
  ELSE [pc |-> syncPhaseAfter(phase, p), idx |-> 1]

\* where the script stands after the request for item i of a loop, whatever
\* its outcome: the try/catch inside the loop body swallows every failure
syncAfterOp(phase, i, p, outcome) ==
  IF i < Len(syncList(phase, p))
  THEN [pc |-> phase, idx |-> i + 1]
  ELSE [pc |-> syncPhaseAfter(phase, p), idx |-> 1]

\* fetchProductionData without the test of response.ok
syncFetchThrows_nostatus(outcome) == outcome = "throw"

\* fetchProductionData of sync-to-production.js throws when fetch rejects or
\* the response is not ok
syncFetchThrows(outcome) == outcome = "throw" \/ ~(outcome = "ok")

\* lines 88-97: existsSync, readFileSync, JSON.parse
SyncLoadLocal ==
  /\ script = "sync" /\ pc = "load"
  /\ UNCHANGED <<files, awaiting, inflight>>
  /\ \/ /\ localFile.state = "missing"
        /\ out' = out \cup {"not-found"}
        /\ Exit(1)
        /\ UNCHANGED localData
     \/ /\ localFile.state = "corrupt"
        /\ out' = out \cup {"failed"}
        /\ Exit(1)
        /\ UNCHANGED localData
     \/ /\ localFile.state = "ok"
        /\ localData' = localFile.data
        /\ out' = out \cup {"local-loaded"}
        /\ pc' = "fetch"
        /\ UNCHANGED exitCode
  /\ UNCHANGED <<self, others, backupName, script, autoConfirm, localFile, prodStore, prodData, plan, idx, answers,
                 successCount, failCount, deleteResults, createResults, backupFile, calls>>

\* the call of fetch(...) at lines 78, 210, 233 and 257: the request leaves
\* and the script is suspended until the answer arrives
SyncIssue ==
  /\ script = "sync" /\ pc \in {"fetch", "create", "update", "delete"}
  /\ ~awaiting
  /\ inflight' = inflight + 1
  /\ awaiting' = awaitsFetch(pc)
  /\ UNCHANGED <<self, others, files, backupName, script, autoConfirm, localFile,
                 prodStore, localData, prodData, plan, pc, idx, answers, successCount,
                 failCount, deleteResults, createResults, backupFile, calls, out,
                 exitCode>>

\* lines 99-190: fetchProductionData, the plan, the summary, the --confirm test
SyncFetch ==
  /\ script = "sync" /\ pc = "fetch"
  /\ awaiting /\ awaiting' = FALSE /\ inflight' = inflight - 1
  /\ UNCHANGED files
  /\ \E outcome \in Outcomes :
       /\ calls' = Append(calls, Call("GET", 0, outcome))
       /\ IF syncFetchThrows(outcome)
          THEN /\ out' = out \cup {"failed"}
               /\ Exit(1)
               /\ UNCHANGED <<prodData, plan>>
          ELSE LET fetched == getData(prodStore)
                   p == computePlan(localData, fetched)
               IN  /\ prodData' = fetched
                   /\ plan' = p
                   /\ UNCHANGED exitCode
                   /\ IF alreadyInSync(p)
                      THEN /\ out' = out \cup {"summary", "in-sync"}
                           /\ pc' = "done"
                      ELSE /\ out' = out \cup {"summary"}
                                     \cup (IF p.settingsChanged
                                           THEN {"settings-will-be-updated"} ELSE {})
                                     \cup (IF autoConfirm THEN {"starting"} ELSE {})
                           /\ pc' = IF autoConfirm THEN syncPhaseAfter("prompt", p)
                                    ELSE "prompt"
  /\ UNCHANGED <<self, others, backupName, script, autoConfirm, localFile, prodStore, localData, idx, answers,
                 successCount, failCount, deleteResults, createResults, backupFile>>

\* a prompt after which production is fetched and compared once more
SyncAsk_refetch ==
  /\ script = "sync" /\ pc = "prompt"
  /\ UNCHANGED <<files, awaiting, inflight>>
  /\ \E answer \in Answers :
       /\ answers' = Append(answers, answer)
       /\ IF isAffirmative(answer)
          THEN /\ out' = out \cup {"starting"}
               /\ prodData' = getData(prodStore)
               /\ plan' = computePlan(localData, getData(prodStore))
               /\ calls' = Append(calls, Call("GET", 0, "ok"))
               /\ pc' = syncPhaseAfter("prompt", plan')
          ELSE /\ out' = out \cup {"cancelled"}
               /\ pc' = "done"
               /\ UNCHANGED <<prodData, plan, calls>>
  /\ UNCHANGED <<self, others, backupName, script, autoConfirm, localFile, prodStore, localData, idx,
                 successCount, failCount, deleteResults, createResults, backupFile,
                 exitCode>>

\* lines 192-204: the single yes/no prompt
SyncAsk ==
  /\ script = "sync" /\ pc = "prompt"
  /\ UNCHANGED <<files, awaiting, inflight>>
  /\ \E answer \in Answers :
       /\ answers' = Append(answers, answer)
       /\ IF isAffirmative(answer)
          THEN /\ out' = out \cup {"starting"}
               /\ pc' = syncPhaseAfter("prompt", plan)
          ELSE /\ out' = out \cup {"cancelled"}
               /\ pc' = "done"
  /\ UNCHANGED <<self, others, backupName, script, autoConfirm, localFile, prodStore, localData, prodData, plan, idx,
                 successCount, failCount, deleteResults, createResults, backupFile,
                 calls, exitCode>>

\* counters where a failure whose error body cannot be read is counted in the
\* else branch and again in the catch block
SyncCounted_twice(outcome) ==
  /\ successCount' = IF outcome = "ok" THEN successCount + 1 ELSE successCount
  /\ failCount' = IF outcome = "ok" THEN failCount
                  ELSE IF outcome = "notok_badjson" THEN failCount + 2
                  ELSE failCount + 1

\* the counters after one request of a sync loop
SyncCounted(outcome) ==
  /\ successCount' = IF outcome = "ok" THEN successCount + 1 ELSE successCount
  /\ failCount' = IF outcome = "ok" THEN failCount ELSE failCount + 1

\* the next position of the script; were an error to leave the loop it would
\* reach the outer catch block, which ends the process with status 1
SyncAdvance(phase, outcome) ==
  /\ pc' = syncAfterOp(phase, idx, plan, outcome).pc
  /\ idx' = syncAfterOp(phase, idx, plan, outcome).idx
  /\ exitCode' = IF pc' = "done" THEN 1 ELSE exitCode

\* lines 206-228: POST one project of toCreate
SyncCreate ==
  /\ script = "sync" /\ pc = "create"
  /\ awaiting /\ awaiting' = FALSE /\ inflight' = inflight - 1
  /\ UNCHANGED files
  /\ LET project == plan.toCreate[idx]
     IN  \E outcome \in Outcomes :
           /\ outcome = "ok" => postCanSucceed(prodStore, project)
           /\ prodStore' = IF outcome = "ok" THEN postProject(prodStore, project)
                           ELSE prodStore
           /\ calls' = Append(calls, Call("POST", project.id, outcome))
           /\ SyncCounted(outcome)
           /\ SyncAdvance("create", outcome)
  /\ UNCHANGED <<self, others, backupName, script, autoConfirm, localFile, localData, prodData, plan, answers,
                 deleteResults, createResults, backupFile, out>>

\* a body taken from the production side of the pair
updateBody_prod(pair) == pair.prod

\* line 236: body: JSON.stringify(local), of the pair { local, prod }
updateBody(pair) == pair.local

\* lines 230-252: PUT the local version of one pair of toUpdate
SyncUpdate ==
  /\ script = "sync" /\ pc = "update"
  /\ awaiting /\ awaiting' = FALSE /\ inflight' = inflight - 1
  /\ UNCHANGED files
  /\ LET local == plan.toUpdate[idx].local
     IN  \E outcome \in Outcomes :
           /\ prodStore' = IF outcome = "ok"
                           THEN putProject(prodStore, local.id,
                                           updateBody(plan.toUpdate[idx]))
                           ELSE prodStore
           /\ calls' = Append(calls, Call("PUT", local.id, outcome))
           /\ SyncCounted(outcome)
           /\ SyncAdvance("update", outcome)
  /\ UNCHANGED <<self, others, backupName, script, autoConfirm, localFile, localData, prodData, plan, answers,
                 deleteResults, createResults, backupFile, out>>

\* lines 254-274: DELETE one project of toDelete
SyncDelete ==
  /\ script = "sync" /\ pc = "delete"
  /\ awaiting /\ awaiting' = FALSE /\ inflight' = inflight - 1
  /\ UNCHANGED files
  /\ LET project == plan.toDelete[idx]
     IN  \E outcome \in Outcomes :
           /\ prodStore' = IF outcome = "ok" THEN deleteProject(prodStore, project.id)
                           ELSE prodStore
           /\ calls' = Append(calls, Call("DELETE", project.id, outcome))
           /\ SyncCounted(outcome)
           /\ SyncAdvance("delete", outcome)
  /\ UNCHANGED <<self, others, backupName, script, autoConfirm, localFile, localData, prodData, plan, answers,
                 deleteResults, createResults, backupFile, out>>

\* a last step that sends the local settings to production
SyncFinish_putsettings ==
  /\ script = "sync" /\ pc = "finish"
  /\ UNCHANGED <<files, awaiting, inflight>>
  /\ out' = out \cup {"complete"}
  /\ prodStore' = IF plan.settingsChanged
                  THEN [prodStore EXCEPT !.settings = localData.settings]
                  ELSE prodStore
  /\ calls' = IF plan.settingsChanged THEN Append(calls, Call("PUT", 0, "ok")) ELSE calls
  /\ pc' = "done"
  /\ UNCHANGED <<self, others, backupName, script, autoConfirm, localFile, localData, prodData, plan, idx,
                 answers, successCount, failCount, deleteResults, createResults,
                 backupFile, exitCode>>

\* a script that never closes its readline interface: the summary is printed
\* and the process stays alive on the open stdin
SyncFinish_open ==
  /\ script = "sync" /\ pc = "finish"
  /\ UNCHANGED <<files, awaiting, inflight>>
  /\ out' = out \cup {"complete"}
                \cup (IF plan.settingsChanged THEN {"settings-not-implemented"} ELSE {})
  /\ pc' = "finish"
  /\ UNCHANGED <<self, others, backupName, script, autoConfirm, localFile, prodStore, localData, prodData, plan, idx,
                 answers, successCount, failCount, deleteResults, createResults,
                 backupFile, calls, exitCode>>

\* lines 276-295: the settings note and the final summary
SyncFinish ==
  /\ script = "sync" /\ pc = "finish"
  /\ UNCHANGED <<files, awaiting, inflight>>
  /\ out' = out \cup {"complete"}
                \cup (IF plan.settingsChanged THEN {"settings-not-implemented"} ELSE {})
  /\ pc' = "done"
  /\ UNCHANGED <<self, others, backupName, script, autoConfirm, localFile, prodStore, localData, prodData, plan, idx,
                 answers, successCount, failCount, deleteResults, createResults,
                 backupFile, calls, exitCode>>

(***************************************************************************)
(* replace-production.js: replaceProduction                                *)
(***************************************************************************)
toUpperCase(s) ==
  CASE s = "yes" -> "YES"
    [] s = "y" -> "Y"
    [] s = "no" -> "NO"
    [] s = "replace" -> "REPLACE"
    [] OTHER -> s

\* a first prompt that ignores the case of the phrase
firstAccepted_lax(answer1) == toUpperCase(answer1) = "REPLACE"

\* the answers that pass the first and the second prompt
firstAccepted(answer1) == ~(answer1 # "REPLACE")

\* a second prompt that only stops on "no"
secondAccepted_lax(answer2) == toUpperCase(answer2) # "NO"

secondAccepted(answer2) == ~(toUpperCase(answer2) # "YES")

\* a replacement that leaves out the pass of deleteAllProjects
replacePhaseAfter_keep(phase, prod, local) ==
  IF phase \in {"prompt", "delete"} /\ Len(local.projects) > 0 THEN "create"
  ELSE "verify"

\* a replacement that creates the local records first and deletes afterwards
replacePhaseAfter_createfirst(phase, prod, local) ==
  IF phase = "prompt" /\ Len(local.projects) > 0 THEN "create"
  ELSE IF phase \in {"prompt", "create"} /\ Len(prod.projects) > 0 THEN "delete"
  ELSE "verify"

\* what follows the prompts: deleteAllProjects(prodData.projects), then
\* createProjects(localData.projects), then the summary and the verification
replacePhaseAfter(phase, prod, local) ==
  IF phase = "prompt" /\ Len(prod.projects) > 0 THEN "delete"
  ELSE IF phase \in {"prompt", "delete"} /\ Len(local.projects) > 0 THEN "create"
  ELSE "verify"

replaceList(phase, prod, local) ==
  CASE phase = "delete" -> prod.projects
    [] phase = "create" -> local.projects

\* a pass that stops at its first failure and goes on with the next pass
replaceAfterOp_break(phase, i, prod, local, outcome) ==
  IF outcome = "ok" /\ i < Len(replaceList(phase, prod, local))
  THEN [pc |-> phase, idx |-> i + 1]
  ELSE [pc |-> replacePhaseAfter(phase, prod, local), idx |-> 1]

\* where the script stands after the request for item i of a pass, whatever
\* its outcome
replaceAfterOp(phase, i, prod, local, outcome) ==
  IF i < Len(replaceList(phase, prod, local))
  THEN [pc |-> phase, idx |-> i + 1]
  ELSE [pc |-> replacePhaseAfter(phase, prod, local), idx |-> 1]

\* a script that asks for the phrases whether or not --confirm was given
replaceAfterBackup_alwaysask(fetched, written, auto, prod, local) ==
  IF ~fetched \/ ~written THEN "done"
  ELSE "prompt1"

\* a script that goes on to the prompts although writeFileSync threw
replaceAfterBackup_nowrite(fetched, written, auto, prod, local) ==
  IF ~fetched THEN "done"
  ELSE IF auto THEN replacePhaseAfter("prompt", prod, local)
  ELSE "prompt1"

\* where the script stands after the fetch and the backup write (lines 111-135):
\* a failed fetch or a failed write throws into the catch block
replaceAfterBackup(fetched, written, auto, prod, local) ==
  IF ~fetched \/ ~written THEN "done"
  ELSE IF auto THEN replacePhaseAfter("prompt", prod, local)
  ELSE "prompt1"

\* fetchProductionData without the test of response.ok
replaceFetchThrows_nostatus(outcome) == outcome = "throw"

\* fetchProductionData of replace-production.js throws when fetch rejects or
\* the response is not ok
replaceFetchThrows(outcome) == outcome = "throw" \/ ~(outcome = "ok")

\* lines 98-108: existsSync, readFileSync, JSON.parse
ReplaceLoadLocal ==
  /\ script = "replace" /\ pc = "load"
  /\ UNCHANGED <<files, awaiting, inflight>>
  /\ \/ /\ localFile.state = "missing"
        /\ out' = out \cup {"not-found"}
        /\ Exit(1)
        /\ UNCHANGED localData
     \/ /\ localFile.state = "corrupt"
        /\ out' = out \cup {"failed", "restore-from-backup"}
        /\ Exit(1)
        /\ UNCHANGED localData
     \/ /\ localFile.state = "ok"
        /\ localData' = localFile.data
        /\ out' = out \cup {"local-loaded"}
        /\ pc' = "fetch"
        /\ UNCHANGED exitCode
  /\ UNCHANGED <<self, others, backupName, script, autoConfirm, localFile, prodStore, prodData, plan, idx, answers,
                 successCount, failCount, deleteResults, createResults, backupFile, calls>>

\* the call of fetch(...) at lines 25, 40, 68 and 180: the request leaves
\* and the script is suspended until the answer arrives
ReplaceIssue ==
  /\ script = "replace" /\ pc \in {"fetch", "delete", "create", "verify"}
  /\ ~awaiting
  /\ inflight' = inflight + 1
  /\ awaiting' = awaitsFetch(pc)
  /\ UNCHANGED <<self, others, files, backupName, script, autoConfirm, localFile,
                 prodStore, localData, prodData, plan, pc, idx, answers, successCount,
                 failCount, deleteResults, createResults, backupFile, calls, out,
                 exitCode>>

\* lines 110-135: fetchProductionData, writeFileSync(BACKUP_FILE), the
\* replacement plan, the --confirm test
ReplaceFetch ==
  /\ script = "replace" /\ pc = "fetch"
  /\ awaiting /\ awaiting' = FALSE /\ inflight' = inflight - 1
  /\ \E outcome \in Outcomes, writeOk \in BOOLEAN :
       LET fetched == ~replaceFetchThrows(outcome)
           written == fetched /\ writeOk
           data == getData(prodStore)
           next == replaceAfterBackup(fetched, written, autoConfirm, data, localData)
       IN  /\ ~fetched => writeOk
           /\ calls' = Append(calls, Call("GET", 0, outcome))
           /\ prodData' = IF fetched THEN data ELSE prodData
           /\ backupFile' = IF written THEN [written |-> TRUE, data |-> data]
                            ELSE backupFile
           /\ files' = IF written THEN writeFileSync(files, BACKUP_FILE, data, self)
                       ELSE files
           /\ pc' = next
           /\ IF ~fetched \/ ~written
              THEN /\ out' = out \cup {"failed", "restore-from-backup"}
                   /\ exitCode' = 1
              ELSE /\ out' = out \cup {"backup-saved", "plan"}
                                 \cup (IF autoConfirm THEN {"starting"} ELSE {})
                   /\ UNCHANGED exitCode
  /\ UNCHANGED <<self, others, backupName, script, autoConfirm, localFile, prodStore, localData, plan, idx, answers,
                 successCount, failCount, deleteResults, createResults>>

\* lines 136-141: the first phrase
ReplaceAsk1 ==
  /\ script = "replace" /\ pc = "prompt1"
  /\ UNCHANGED <<files, awaiting, inflight>>
  /\ \E answer1 \in Answers :
       /\ answers' = Append(answers, answer1)
       /\ IF firstAccepted(answer1)
          THEN /\ pc' = "prompt2"
               /\ UNCHANGED out
          ELSE /\ out' = out \cup {"cancelled"}
               /\ pc' = "done"
  /\ UNCHANGED <<self, others, backupName, script, autoConfirm, localFile, prodStore, localData, prodData, plan, idx,
                 successCount, failCount, deleteResults, createResults, backupFile,
                 calls, exitCode>>

\* lines 143-152: the second phrase
ReplaceAsk2 ==
  /\ script = "replace" /\ pc = "prompt2"
  /\ UNCHANGED <<files, awaiting, inflight>>
  /\ \E answer2 \in Answers :
       /\ answers' = Append(answers, answer2)
       /\ IF secondAccepted(answer2)
          THEN /\ out' = out \cup {"starting"}
               /\ pc' = replacePhaseAfter("prompt", prodData, localData)
          ELSE /\ out' = out \cup {"cancelled"}
               /\ pc' = "done"
  /\ UNCHANGED <<self, others, backupName, script, autoConfirm, localFile, prodStore, localData, prodData, plan, idx,
                 successCount, failCount, deleteResults, createResults, backupFile,
                 calls, exitCode>>

\* the next position of the script; were an error to leave the pass it would
\* reach the outer catch block, which ends the process with status 1
ReplaceAdvance(phase, outcome) ==
  /\ pc' = replaceAfterOp(phase, idx, prodData, localData, outcome).pc
  /\ idx' = replaceAfterOp(phase, idx, prodData, localData, outcome).idx
  /\ exitCode' = IF pc' = "done" THEN 1 ELSE exitCode

\* deleteAllProjects: one turn of its loop
ReplaceDelete ==
  /\ script = "replace" /\ pc = "delete"
  /\ awaiting /\ awaiting' = FALSE /\ inflight' = inflight - 1
  /\ UNCHANGED files
  /\ LET project == prodData.projects[idx]
     IN  \E outcome \in Outcomes :
           /\ prodStore' = IF outcome = "ok" THEN deleteProject(prodStore, project.id)
                           ELSE prodStore
           /\ calls' = Append(calls, Call("DELETE", project.id, outcome))
           /\ deleteResults' = IF outcome = "ok"
                               THEN [deleteResults EXCEPT !.deleted = @ + 1]
                               ELSE [deleteResults EXCEPT !.failed = @ + 1]
           /\ ReplaceAdvance("delete", outcome)
  /\ UNCHANGED <<self, others, backupName, script, autoConfirm, localFile, localData, prodData, plan, answers,
                 successCount, failCount, createResults, backupFile, out>>

\* createProjects: one turn of its loop
ReplaceCreate ==
  /\ script = "replace" /\ pc = "create"
  /\ awaiting /\ awaiting' = FALSE /\ inflight' = inflight - 1
  /\ UNCHANGED files
  /\ LET project == localData.projects[idx]
     IN  \E outcome \in Outcomes :
           /\ outcome = "ok" => postCanSucceed(prodStore, project)
           /\ prodStore' = IF outcome = "ok" THEN postProject(prodStore, project)
                           ELSE prodStore
           /\ calls' = Append(calls, Call("POST", project.id, outcome))
           /\ createResults' = IF outcome = "ok"
                               THEN [createResults EXCEPT !.created = @ + 1]
                               ELSE [createResults EXCEPT !.failed = @ + 1]
           /\ ReplaceAdvance("create", outcome)
  /\ UNCHANGED <<self, others, backupName, script, autoConfirm, localFile, localData, prodData, plan, answers,
                 successCount, failCount, deleteResults, backupFile, out>>

\* lines 162-191: the settings note, the summary and the verifying re-fetch
ReplaceVerify ==
  /\ script = "replace" /\ pc = "verify"
  /\ awaiting /\ awaiting' = FALSE /\ inflight' = inflight - 1
  /\ UNCHANGED files
  /\ \E outcome \in Outcomes :
       /\ calls' = Append(calls, Call("GET", 0, outcome))
       /\ IF ~replaceFetchThrows(outcome)
          THEN /\ out' = out \cup {"settings-not-implemented", "complete", "verified"}
               /\ Exit(0)
          ELSE /\ out' = out \cup {"settings-not-implemented", "complete", "failed",
                                   "restore-from-backup"}
               /\ Exit(1)
  /\ UNCHANGED <<self, others, backupName, script, autoConfirm, localFile, prodStore, localData, prodData, plan, idx,
                 answers, successCount, failCount, deleteResults, createResults,
                 backupFile>>

(***************************************************************************)
(* backup-data.js                                                          *)
(***************************************************************************)

\* lines 13-17: fetch rejects, or the status is not ok and the script throws
backupFetchThrows_nostatus(outcome) == outcome = "throw"

backupFetchThrows(outcome) == outcome # "ok"

\* line 13: the call of fetch(PRODUCTION_URL)
BackupIssue ==
  /\ script = "backup" /\ pc = "fetch"
  /\ ~awaiting
  /\ inflight' = inflight + 1
  /\ awaiting' = awaitsFetch(pc)
  /\ UNCHANGED <<self, others, files, backupName, script, autoConfirm, localFile,
                 prodStore, localData, prodData, plan, pc, idx, answers, successCount,
                 failCount, deleteResults, createResults, backupFile, calls, out,
                 exitCode>>

\* lines 13-54: the answer arrives; response.json() and writeFileSync may
\* throw as well (a write that throws is taken to leave the disk as it was)
BackupFetch ==
  /\ script = "backup" /\ pc = "fetch"
  /\ awaiting /\ awaiting' = FALSE /\ inflight' = inflight - 1
  /\ \E outcome \in Outcomes, bodyOk \in BOOLEAN, writeOk \in BOOLEAN :
       LET fetched == ~backupFetchThrows(outcome)
           parsed == fetched /\ bodyOk
           written == parsed /\ writeOk
           data == getData(prodStore)
       IN  /\ ~fetched => bodyOk
           /\ ~parsed => writeOk
           /\ calls' = Append(calls, Call("GET", 0, outcome))
           /\ prodData' = IF parsed THEN data ELSE prodData
           /\ files' = IF written THEN writeFileSync(files, BACKUP_FILE, data, self)
                       ELSE files
           /\ backupFile' = IF written THEN [written |-> TRUE, data |-> data]
                            ELSE backupFile
           /\ out' = out \cup (IF written THEN {"backup-completed"} ELSE {"failed"})
           /\ Exit(IF written THEN 0 ELSE 1)
  /\ UNCHANGED <<self, others, backupName, script, autoConfirm, localFile, prodStore,
                 localData, plan, idx, answers, successCount, failCount,
                 deleteResults, createResults>>

(***************************************************************************)
(* The plan on its own: the comparison of syncData (lines 103-130) applied *)
(* to a pair of snapshots drawn from a wider set than the runs above, with *)
(* both names and both key orders of stages on either side.                *)
(***************************************************************************)
PlanContents ==
  [c1 |-> <<"a", StagesA>>, c2 |-> <<"b", StagesA>>, c3 |-> <<"a", StagesB>>]

PlanChoices == {"none", "c1", "c2", "c3"}

RECURSIVE PlanListOf(_, _)
PlanListOf(choice, from) ==
  IF from > PlanMaxId THEN <<>>
  ELSE (IF choice[from] = "none" THEN <<>>
        ELSE <<Project(from, PlanContents[choice[from]][1], JSstr("c"),
                       PlanContents[choice[from]][2])>>)
       \o PlanListOf(choice, from + 1)

InitPlan ==
  /\ script = "plan"
  /\ autoConfirm = FALSE
  /\ localFile = [state |-> "ok", data |-> EmptySnapshot]
  /\ prodStore = [projects |-> {}, settings |-> SettingsA]
  /\ \E lf \in [1..PlanMaxId -> PlanChoices], ls \in {SettingsA, SettingsB} :
       localData = [projects |-> PlanListOf(lf, 1), settings |-> ls]
  /\ \E pf \in [1..PlanMaxId -> PlanChoices] :
       prodData = [projects |-> PlanListOf(pf, 1), settings |-> SettingsA]
  /\ plan = EmptyPlan
  /\ pc = "compare"
  /\ idx = 1
  /\ answers = <<>>
  /\ successCount = 0
  /\ failCount = 0
  /\ deleteResults = [deleted |-> 0, failed |-> 0]
  /\ createResults = [created |-> 0, failed |-> 0]
  /\ backupFile = [written |-> FALSE, data |-> EmptySnapshot]
  /\ calls = <<>>
  /\ out = {}
  /\ exitCode = 0
  /\ self = 1
  /\ others = <<>>
  /\ files = {}
  /\ backupName = 1
  /\ awaiting = FALSE
  /\ inflight = 0

\* lines 103-130 of syncData
PlanCompare ==
  /\ script = "plan" /\ pc = "compare"
  /\ UNCHANGED <<files, awaiting, inflight>>
  /\ plan' = computePlan(localData, prodData)
  /\ pc' = "compared"
  /\ UNCHANGED <<self, others, backupName, script, autoConfirm, localFile, prodStore, localData, prodData, idx,
                 answers, successCount, failCount, deleteResults, createResults,
                 backupFile, calls, out, exitCode>>

NextPlan == PlanCompare

SpecPlan == InitPlan /\ [][NextPlan]_vars

(***************************************************************************)
(* A sync run over a local-data.json whose projects list may hold the same  *)
(* id more than once (the file is plain JSON and can be edited by hand);    *)
(* production rows are keyed by id (id TEXT PRIMARY KEY) and cannot.        *)
(***************************************************************************)
DupRecords ==
  {Project(id, JSstr(n), JSstr("c"), StagesA) : id \in 1..DupMaxId, n \in LocalNames}

DupLists == UNION {[1..n -> DupRecords] : n \in 0..DupMaxLen}

InitDup ==
  /\ self = 1
  /\ others = <<>>
  /\ backupName = 1
  /\ files = {}
  /\ script = "sync"
  /\ autoConfirm \in BOOLEAN
  /\ pc = "load"
  /\ \E l \in DupLists, ls \in {SettingsA, SettingsB} :
       localFile = [state |-> "ok", data |-> [projects |-> l, settings |-> ls]]
  /\ \E pf \in [1..DupMaxId -> {"none"} \cup ProdNames] :
       prodStore =
         [projects |-> {RowOf(Project(id, JSstr(pf[id]), JSstr("c"), StagesA)) :
                          id \in {i \in 1..DupMaxId : pf[i] # "none"}},
          settings |-> SettingsA]
  /\ RunStart

NextSync ==
  \/ SyncLoadLocal
  \/ SyncIssue
  \/ SyncFetch
  \/ SyncAsk
  \/ SyncCreate
  \/ SyncUpdate
  \/ SyncDelete
  \/ SyncFinish

SpecDup == InitDup /\ [][NextSync]_vars

(***************************************************************************)
(* More than one run.  The variables of a run are the variables of the      *)
(* process that is executing; those of a process that has exited, or that   *)
(* is not scheduled now, are kept as a record in others.  prodStore and     *)
(* files are shared.                                                        *)
(***************************************************************************)
RunLocals ==
  [self |-> self, backupName |-> backupName, awaiting |-> awaiting,
   inflight |-> inflight, script |-> script, autoConfirm |-> autoConfirm,
   localFile |-> localFile, localData |-> localData, prodData |-> prodData,
   plan |-> plan, pc |-> pc, idx |-> idx, answers |-> answers,
   successCount |-> successCount, failCount |-> failCount,
   deleteResults |-> deleteResults, createResults |-> createResults,
   backupFile |-> backupFile, calls |-> calls, out |-> out, exitCode |-> exitCode]

\* a process about to execute its first statement
StartLocals(id, stamp, scr, auto, lfile) ==
  [self |-> id, backupName |-> stamp, awaiting |-> FALSE, inflight |-> 0,
   script |-> scr, autoConfirm |-> auto, localFile |-> lfile,
   localData |-> EmptySnapshot, prodData |-> EmptySnapshot, plan |-> EmptyPlan,
   pc |-> "load", idx |-> 1, answers |-> <<>>, successCount |-> 0, failCount |-> 0,
   deleteResults |-> [deleted |-> 0, failed |-> 0],
   createResults |-> [created |-> 0, failed |-> 0],
   backupFile |-> [written |-> FALSE, data |-> EmptySnapshot],
   calls |-> <<>>, out |-> {}, exitCode |-> 0]

\* the process r is the one that executes from now on
Resume(r) ==
  /\ self' = r.self
  /\ backupName' = r.backupName
  /\ awaiting' = r.awaiting
  /\ inflight' = r.inflight
  /\ script' = r.script
  /\ autoConfirm' = r.autoConfirm
  /\ localFile' = r.localFile
  /\ localData' = r.localData
  /\ prodData' = r.prodData
  /\ plan' = r.plan
  /\ pc' = r.pc
  /\ idx' = r.idx
  /\ answers' = r.answers
  /\ successCount' = r.successCount
  /\ failCount' = r.failCount
  /\ deleteResults' = r.deleteResults
  /\ createResults' = r.createResults
  /\ backupFile' = r.backupFile
  /\ calls' = r.calls
  /\ out' = r.out
  /\ exitCode' = r.exitCode

\* the operator gives the same command again, with the same flags and the same
\* local-data.json, after the first process has exited
RunAgain ==
  /\ pc = "done"
  /\ others = <<>>
  /\ others' = <<RunLocals>>
  /\ Resume(StartLocals(self + 1, backupName + 1, script, autoConfirm, localFile))
  /\ UNCHANGED <<prodStore, files>>

(***************************************************************************)
(* sync-to-production.js --confirm run twice over records whose client is   *)
(* a string, the empty string or null                                       *)
(***************************************************************************)
AgainClients == {JSstr("c"), JSstr(""), JSnull}

\* what the local file holds for an id: no record, or a name and a client
AgainNone == <<"none", JSnull>>

AgainChoices == {<<n, c>> : n \in LocalNames, c \in AgainClients}

RECURSIVE AgainListOf(_, _)
AgainListOf(choice, from) ==
  IF from > AgainMaxId THEN <<>>
  ELSE (IF choice[from] = AgainNone THEN <<>>
        ELSE <<Project(from, JSstr(choice[from][1]), choice[from][2], StagesA)>>)
       \o AgainListOf(choice, from + 1)

InitAgain ==
  /\ self = 1
  /\ others = <<>>
  /\ backupName = 1
  /\ files = {}
  /\ script = "sync"
  /\ autoConfirm = TRUE
  /\ pc = "load"
  /\ \E lf \in [1..AgainMaxId -> {AgainNone} \cup AgainChoices] :
       localFile = [state |-> "ok",
                    data |-> [projects |-> AgainListOf(lf, 1), settings |-> SettingsA]]
  /\ \E pf \in [1..AgainMaxId -> {"none"} \cup ProdNames] :
       prodStore =
         [projects |-> {RowOf(Project(id, JSstr(pf[id]), JSstr("c"), StagesA)) :
                          id \in {i \in 1..AgainMaxId : pf[i] # "none"}},
          settings |-> SettingsA]
  /\ RunStart

NextAgain ==
  \/ SyncLoadLocal
  \/ SyncIssue
  \/ SyncFetch
  \/ SyncCreate
  \/ SyncUpdate
  \/ SyncDelete
  \/ SyncFinish
  \/ RunAgain

SpecAgain == InitAgain /\ [][NextAgain]_vars

(***************************************************************************)
(* Two operators run sync-to-production.js or replace-production.js with    *)
(* --confirm at the same time, each over a local-data.json of its own,      *)
(* against the same production API and in the same working directory.       *)
(* Each script reads the clock once, at start-up (replace-production.js     *)
(* line 12); the two readings may be the same millisecond.                  *)
(***************************************************************************)
RECURSIVE TwoListOf(_, _, _)
\* the records of the ids from..to, in order of number
TwoListOf(name, from, to) ==
  IF from > to THEN <<>>
  ELSE <<Project(from, JSstr(name), JSstr("c"), StagesA)>>
       \o TwoListOf(name, from + 1, to)

TwoLocalFile(name, from, to) ==
  [state |-> "ok",
   data |-> [projects |-> TwoListOf(name, from, to), settings |-> SettingsA]]

\* the first operator's snapshot and production hold the lower ids, the
\* second operator's snapshot the upper ones; the pairs of scripts are sync
\* and sync, sync and replace, replace and replace, and the clock matters only
\* to the last pair
InitTwo ==
  /\ self = 1
  /\ backupName = 1
  /\ files = {}
  /\ script \in {"sync", "replace"}
  /\ autoConfirm = TRUE
  /\ pc = "load"
  /\ \E k \in 0..TwoMaxId : localFile = TwoLocalFile("a", 1, k)
  /\ \E k \in 1..(TwoMaxId + 1), scr \in {"sync", "replace"}, stamp \in 1..TwoMaxStamp :
       /\ script = "replace" => scr = "replace"
       /\ stamp > 1 => script = "replace"
       /\ others = <<StartLocals(2, stamp, scr, TRUE, TwoLocalFile("b", k, TwoMaxId))>>
  /\ \E k \in 0..TwoMaxId :
       prodStore = [projects |-> {RowOf(p) : p \in SeqToSet(TwoListOf("a", 1, k))},
                    settings |-> SettingsA]
  /\ RunStart

\* the other process is scheduled.  Steps of one process that touch neither
\* production nor the disk commute with every step of the other, so the
\* processes are switched only while the running one waits for an answer or
\* has exited.
Switch ==
  /\ Len(others) = 1
  /\ others[1].pc # "done"
  /\ awaiting \/ pc = "done"
  /\ others' = <<RunLocals>>
  /\ Resume(others[1])
  /\ UNCHANGED <<prodStore, files>>

NextTwo ==
  \/ SyncLoadLocal
  \/ SyncIssue
  \/ SyncFetch
  \/ SyncCreate
  \/ SyncUpdate
  \/ SyncDelete
  \/ SyncFinish
  \/ ReplaceLoadLocal
  \/ ReplaceIssue
  \/ ReplaceFetch
  \/ ReplaceDelete
  \/ ReplaceCreate
  \/ ReplaceVerify
  \/ Switch

SpecTwo == InitTwo /\ [][NextTwo]_vars

(***************************************************************************)
(* A sync run without --confirm while another client of the API (the web   *)
(* application, another script) writes to production.  The other client's  *)
(* writes are taken while the run waits at its prompt, the one place where  *)
(* the run stands still for as long as the operator likes.                  *)
(***************************************************************************)
RECURSIVE StaleListOf(_, _)
StaleListOf(choice, from) ==
  IF from > StaleMaxId THEN <<>>
  ELSE (IF choice[from] = "none" THEN <<>>
        ELSE <<Project(from, JSstr(choice[from]), JSstr("c"), StagesA)>>)
       \o StaleListOf(choice, from + 1)

InitStale ==
  /\ self = 1
  /\ others = <<>>
  /\ backupName = 1
  /\ files = {}
  /\ script = "sync"
  /\ autoConfirm = FALSE
  /\ pc = "load"
  /\ \E lf \in [1..StaleMaxId -> {"none"} \cup LocalNames] :
       localFile = [state |-> "ok",
                    data |-> [projects |-> StaleListOf(lf, 1), settings |-> SettingsA]]
  /\ \E pf \in [1..StaleMaxId -> {"none"} \cup ProdNames] :
       prodStore = [projects |-> {RowOf(p) : p \in SeqToSet(StaleListOf(pf, 1))},
                    settings |-> SettingsA]
  /\ RunStart

\* the record the other client writes under an id
OtherRecord(id) == Project(id, JSstr("w"), JSstr("c"), StagesA)

\* POST, PUT or DELETE /api/projects by the other client, answered ok
OtherWrites ==
  /\ script = "sync" /\ pc = "prompt"
  /\ \E id \in 1..StaleMaxId :
       \/ /\ postCanSucceed(prodStore, OtherRecord(id))
          /\ prodStore' = postProject(prodStore, OtherRecord(id))
       \/ /\ ~postCanSucceed(prodStore, OtherRecord(id))
          /\ prodStore' = putProject(prodStore, id, OtherRecord(id))
       \/ /\ ~postCanSucceed(prodStore, OtherRecord(id))
          /\ prodStore' = deleteProject(prodStore, id)
  /\ UNCHANGED <<self, others, files, backupName, awaiting, inflight, script,
                 autoConfirm, localFile, localData, prodData, plan, pc, idx, answers,
                 successCount, failCount, deleteResults, createResults, backupFile,
                 calls, out, exitCode>>

NextStale ==
  \/ SyncLoadLocal
  \/ SyncIssue
  \/ SyncFetch
  \/ SyncAsk
  \/ SyncCreate
  \/ SyncUpdate
  \/ SyncDelete
  \/ SyncFinish
  \/ OtherWrites

SpecStale == InitStale /\ [][NextStale]_vars

(***************************************************************************)
(* migrate-data-smart.js: the import of backup-data.json into production.   *)
(* The run keeps prodState in prodData and the parsed backup in localData;  *)
(* its counters are the three state functions below (skipped stays 0).      *)
(***************************************************************************)
created == createResults.created
updated == successCount
failed == createResults.failed

\* './backup-data.json', the file backup-data.js writes
MIGRATE_BACKUP == <<"backup-data.json", 0>>

\* a check that takes a response without a projects list for an empty database
checkProductionSchema_lenient(outcome, store) ==
  IF outcome \in {"throw", "notok_badjson"} THEN [ok |-> FALSE, data |-> EmptySnapshot]
  ELSE IF outcome = "notok" THEN [ok |-> TRUE, data |-> EmptySnapshot]
  ELSE [ok |-> TRUE, data |-> getData(store)]

\* lines 7-31: null (ok = FALSE) when fetch rejects, when response.json()
\* throws, or when the body has no projects list (an error body: reading
\* data.projects.length throws); otherwise the projects and settings of the body
checkProductionSchema(outcome, store) ==
  IF outcome \in {"throw", "notok_badjson"} THEN [ok |-> FALSE, data |-> EmptySnapshot]
  ELSE IF outcome = "notok" THEN [ok |-> FALSE, data |-> EmptySnapshot]
  ELSE [ok |-> TRUE, data |-> getData(store)]

\* an import that creates every project of the file
migrateMethod_post(prodState, project) == "POST"

\* lines 51-53, 63, 68: existingProjectsMap.get(project.id) is a record of
\* prodState or undefined
migrateMethod(prodState, project) ==
  IF MapHas(prodState.projects, project.id) THEN "PUT" ELSE "POST"

\* where the script stands before item i of backup.projects (lines 61, 110-117)
migrateAt(i, backup) ==
  IF i > Len(backup.projects) THEN "done" ELSE "import"

RECURSIVE MigListOf(_, _)
MigListOf(choice, from) ==
  IF from > MigMaxId THEN <<>>
  ELSE (IF choice[from] = "none" THEN <<>>
        ELSE <<Project(from, JSstr(choice[from]), JSstr("c"), StagesA)>>)
       \o MigListOf(choice, from + 1)

\* one run of migrate-data-smart.js; backup-data.json is missing or is what
\* backup-data.js wrote from an earlier state of production
InitMigrate ==
  /\ self = 1
  /\ others = <<>>
  /\ backupName = 1
  /\ script = "migrate"
  /\ autoConfirm = FALSE
  /\ localFile = [state |-> "ok", data |-> EmptySnapshot]
  /\ pc = "check"
  /\ \/ files = {}
     \/ \E bf \in [1..MigMaxId -> {"none"} \cup LocalNames] :
          files = {[name |-> MIGRATE_BACKUP,
                    data |-> getData([projects |-> {RowOf(p) : p \in SeqToSet(MigListOf(bf, 1))},
                                      settings |-> SettingsA]),
                    by |-> 0]}
  /\ \E pf \in [1..MigMaxId -> {"none"} \cup ProdNames] :
       prodStore = [projects |-> {RowOf(p) : p \in SeqToSet(MigListOf(pf, 1))},
                    settings |-> SettingsA]
  /\ RunStart

\* lines 11, 70, 86: the call of fetch; the script is suspended until the
\* answer arrives
MigrateIssue ==
  /\ script = "migrate" /\ pc \in {"check", "import"}
  /\ ~awaiting
  /\ inflight' = inflight + 1
  /\ awaiting' = awaitsFetch(pc)
  /\ UNCHANGED <<self, others, files, backupName, script, autoConfirm, localFile,
                 prodStore, localData, prodData, plan, pc, idx, answers, successCount,
                 failCount, deleteResults, createResults, backupFile, calls, out,
                 exitCode>>

\* lines 11-30 and 38-44: the answer of GET /api/data arrives
MigrateCheck ==
  /\ script = "migrate" /\ pc = "check"
  /\ awaiting /\ awaiting' = FALSE /\ inflight' = inflight - 1
  /\ \E outcome \in Outcomes :
       LET prodState == checkProductionSchema(outcome, prodStore)
       IN  /\ calls' = Append(calls, Call("GET", 0, outcome))
           /\ prodData' = IF prodState.ok THEN prodState.data ELSE prodData
           /\ out' = out \cup (IF prodState.ok THEN {"checked"}
                               ELSE {"check-failed", "cannot-proceed"})
           /\ pc' = IF prodState.ok THEN "read" ELSE "done"
  /\ UNCHANGED <<self, others, files, backupName, script, autoConfirm, localFile,
                 prodStore, localData, plan, idx, answers, successCount, failCount,
                 deleteResults, createResults, backupFile, exitCode>>

\* lines 47-61: read and parse the backup file, then enter the loop; a
\* readFileSync that throws is caught at line 119
MigrateRead ==
  /\ script = "migrate" /\ pc = "read"
  /\ IF \E f \in files : f.name = MIGRATE_BACKUP
     THEN LET backup == (CHOOSE f \in files : f.name = MIGRATE_BACKUP).data
          IN  /\ localData' = backup
              /\ pc' = migrateAt(1, backup)
              /\ out' = out \cup {"read"}
                            \cup (IF pc' = "done" THEN {"migration-complete"} ELSE {})
     ELSE /\ localData' = localData
          /\ pc' = "done"
          /\ out' = out \cup {"migration-failed"}
  /\ idx' = 1
  /\ UNCHANGED <<self, others, files, backupName, awaiting, inflight, script,
                 autoConfirm, localFile, prodStore, prodData, plan, answers,
                 successCount, failCount, deleteResults, createResults, backupFile,
                 calls, exitCode>>

\* lines 62-117: the answer of the PUT or POST of backup.projects[idx]
\* arrives, the counter of its case goes up by one, and the loop goes on
MigrateImport ==
  /\ script = "migrate" /\ pc = "import"
  /\ awaiting /\ awaiting' = FALSE /\ inflight' = inflight - 1
  /\ LET project == localData.projects[idx]
         method == migrateMethod(prodData, project)
     IN  \E outcome \in Outcomes :
           /\ (outcome = "ok" /\ method = "POST") => postCanSucceed(prodStore, project)
           /\ prodStore' = IF outcome # "ok" THEN prodStore
                           ELSE IF method = "PUT"
                                THEN putProject(prodStore, project.id, project)
                                ELSE postProject(prodStore, project)
           /\ calls' = Append(calls, Call(method, project.id, outcome))
           /\ successCount' = IF outcome = "ok" /\ method = "PUT"
                              THEN successCount + 1 ELSE successCount
           /\ createResults' =
                [created |-> IF outcome = "ok" /\ method = "POST"
                             THEN createResults.created + 1 ELSE createResults.created,
                 failed |-> IF outcome # "ok"
                            THEN createResults.failed + 1 ELSE createResults.failed]
  /\ idx' = idx + 1
  /\ pc' = migrateAt(idx + 1, localData)
  /\ out' = out \cup (IF pc' = "done" THEN {"migration-complete"} ELSE {})
  /\ UNCHANGED <<self, others, files, backupName, script, autoConfirm, localFile,
                 localData, prodData, plan, answers, failCount, deleteResults,
                 backupFile, exitCode>>

\* POST, PUT or DELETE /api/projects by another client of the API, answered
\* ok, after the check and before the first request of the import
MigrateOtherWrites ==
  /\ script = "migrate" /\ pc = "read"
  /\ \E id \in 1..MigMaxId :
       \/ /\ postCanSucceed(prodStore, OtherRecord(id))
          /\ prodStore' = postProject(prodStore, OtherRecord(id))
       \/ /\ ~postCanSucceed(prodStore, OtherRecord(id))
          /\ prodStore' = putProject(prodStore, id, OtherRecord(id))
       \/ /\ ~postCanSucceed(prodStore, OtherRecord(id))
          /\ prodStore' = deleteProject(prodStore, id)
  /\ UNCHANGED <<self, others, files, backupName, awaiting, inflight, script,
                 autoConfirm, localFile, localData, prodData, plan, pc, idx, answers,
                 successCount, failCount, deleteResults, createResults, backupFile,
                 calls, out, exitCode>>

NextMigrate ==
  \/ MigrateIssue
  \/ MigrateCheck
  \/ MigrateRead
  \/ MigrateImport
  \/ MigrateOtherWrites

SpecMigrate == InitMigrate /\ [][NextMigrate]_vars

Next ==
  \/ SyncLoadLocal
  \/ SyncIssue
  \/ SyncFetch
  \/ SyncAsk
  \/ SyncCreate
  \/ SyncUpdate
  \/ SyncDelete
  \/ SyncFinish
  \/ ReplaceLoadLocal
  \/ ReplaceIssue
  \/ ReplaceFetch
  \/ ReplaceAsk1
  \/ ReplaceAsk2
  \/ ReplaceDelete
  \/ ReplaceCreate
  \/ ReplaceVerify
  \/ BackupIssue
  \/ BackupFetch

Spec == Init /\ [][Next]_vars

RECURSIVE LiveListOf(_, _)
LiveListOf(choice, from) ==
  IF from > LiveMaxId THEN <<>>
  ELSE (IF choice[from] = "none" THEN <<>>
        ELSE <<Project(from, JSstr(choice[from]), JSstr("c"), StagesA)>>)
       \o LiveListOf(choice, from + 1)

\* one run of sync-to-production.js or replace-production.js, with or
\* without --confirm, over a local-data.json that is missing or readable
InitLive ==
  /\ self = 1
  /\ others = <<>>
  /\ backupName = 1
  /\ files = {}
  /\ script \in {"sync", "replace"}
  /\ autoConfirm \in BOOLEAN
  /\ pc = "load"
  /\ \/ localFile = [state |-> "missing", data |-> EmptySnapshot]
     \/ \E lf \in [1..LiveMaxId -> {"none"} \cup LocalNames] :
          localFile = [state |-> "ok",
                       data |-> [projects |-> LiveListOf(lf, 1), settings |-> SettingsA]]
  /\ \E pf \in [1..LiveMaxId -> {"none"} \cup ProdNames] :
       prodStore = [projects |-> {RowOf(p) : p \in SeqToSet(LiveListOf(pf, 1))},
                    settings |-> SettingsA]
  /\ RunStart

NextReconcile ==
  \/ SyncLoadLocal
  \/ SyncIssue
  \/ SyncFetch
  \/ SyncAsk
  \/ SyncCreate
  \/ SyncUpdate
  \/ SyncDelete
  \/ SyncFinish
  \/ ReplaceLoadLocal
  \/ ReplaceIssue
  \/ ReplaceFetch
  \/ ReplaceAsk1
  \/ ReplaceAsk2
  \/ ReplaceDelete
  \/ ReplaceCreate
  \/ ReplaceVerify

\* a run in which every request is answered (ok, not ok, or by a thrown
\* error), every prompt is answered, and the script itself goes on whenever
\* it can: in each state at most one kind of step is possible, so weak
\* fairness of the next-state relation says all of that
SpecLive == InitLive /\ [][NextReconcile]_vars /\ WF_vars(NextReconcile)

(***************************************************************************)
(* Properties                                                              *)
(***************************************************************************)
IsMutation(c) == c.method \in {"POST", "PUT", "DELETE"}

\* the create, update and delete requests issued so far, as <<method, id>>
Issued ==
  LET m == SelectSeq(calls, IsMutation)
  IN  [i \in 1..Len(m) |-> <<m[i].method, m[i].id>>]

NoMutationCalls == \A i \in 1..Len(calls) : ~IsMutation(calls[i])

IsPrefix(s, t) == Len(s) <= Len(t) /\ \A i \in 1..Len(s) : s[i] = t[i]

IdsOf(list) == {list[i].id : i \in 1..Len(list)}

\* C1: in the replace workflow every DELETE or CREATE request is issued from
\* a state in which the backup file is already written and holds the fetched
\* production snapshot; as long as no backup has been written (the fetch or
\* the write failed) no DELETE and no CREATE has been issued.
C1_BackupBeforeDestroy ==
  /\ [](script = "replace" /\ ~backupFile.written => NoMutationCalls)
  /\ [][(script = "replace" /\ Len(calls') > Len(calls)
           /\ IsMutation(calls'[Len(calls')]))
        => (backupFile.written /\ backupFile.data = prodData)]_vars

C1_Witness ==
  /\ script = "replace"
  /\ backupFile.written
  /\ Len(backupFile.data.projects) >= 2
  /\ \E i \in 1..Len(calls) : calls[i].method = "DELETE"

\* C2: in a replace run without --confirm, once the first answer is not the
\* phrase REPLACE, or the second answer is not the phrase YES (in any letter
\* case, which is how the second prompt compares), the run is over, cancelled,
\* with no DELETE and no CREATE request issued.
C2_ReplaceCancelPure ==
  (/\ script = "replace"
   /\ ~autoConfirm
   /\ \/ Len(answers) >= 1 /\ answers[1] # "REPLACE"
      \/ Len(answers) >= 2 /\ answers[2] \notin {"YES", "yes"})
  => (NoMutationCalls /\ pc = "done" /\ "cancelled" \in out)

C2_Witness ==
  /\ script = "replace"
  /\ ~autoConfirm
  /\ Len(answers) = 2
  /\ answers[2] = "replace"
  /\ Len(prodData.projects) >= 1
  /\ Len(localData.projects) >= 1
  /\ pc = "done"

\* C3: in a sync run without --confirm, an answer other than yes or y (in any
\* letter case) ends the run, cancelled, with no create, update or delete
\* request issued.
C3_SyncCancelPure ==
  (/\ script = "sync"
   /\ ~autoConfirm
   /\ Len(answers) >= 1
   /\ answers[1] \notin {"yes", "YES", "y"})
  => (NoMutationCalls /\ pc = "done" /\ "cancelled" \in out)

C3_Witness ==
  /\ script = "sync"
  /\ ~autoConfirm
  /\ answers = <<"replace">>
  /\ Len(plan.toCreate) >= 1
  /\ Len(plan.toDelete) >= 1
  /\ pc = "done"

Rank(method) ==
  CASE method = "GET" -> 0
    [] method = "POST" -> 1
    [] method = "PUT" -> 2
    [] method = "DELETE" -> 3

\* C4: in a sync run no update request is issued before a create request and
\* no delete request before a create or an update request, whatever the
\* outcomes of the requests.
C4_SyncOrder ==
  script = "sync" =>
    \A i \in 1..Len(calls) : \A j \in i..Len(calls) :
      Rank(calls[i].method) <= Rank(calls[j].method)

C4_Witness ==
  /\ script = "sync"
  /\ \E i, j, k \in 1..Len(calls) :
       /\ calls[i].method = "POST" /\ ~calls[i].ok
       /\ calls[j].method = "PUT" /\ ~calls[j].ok
       /\ calls[k].method = "DELETE"

CreateIds == {plan.toCreate[i].id : i \in 1..Len(plan.toCreate)}

UpdateIds == {plan.toUpdate[i].local.id : i \in 1..Len(plan.toUpdate)}

DeleteIds == {plan.toDelete[i].id : i \in 1..Len(plan.toDelete)}

\* the ids both sides hold with the same content
UnchangedIds ==
  {id \in IdsOf(localData.projects) \cap IdsOf(prodData.projects) :
     \E i \in 1..Len(localData.projects) :
       /\ localData.projects[i].id = id
       /\ \E j \in 1..Len(prodData.projects) :
            localData.projects[i] = prodData.projects[j]}

\* C5: once the plan is computed, every id of the local or of the production
\* collection is in exactly one of the classes create, update, delete and
\* unchanged.
C5_Partition ==
  pc = "compared" =>
    \A id \in IdsOf(localData.projects) \cup IdsOf(prodData.projects) :
      Cardinality({c \in {"create", "update", "delete", "unchanged"} :
                     \/ c = "create" /\ id \in CreateIds
                     \/ c = "update" /\ id \in UpdateIds
                     \/ c = "delete" /\ id \in DeleteIds
                     \/ c = "unchanged" /\ id \in UnchangedIds}) = 1

C5_Witness ==
  /\ pc = "compared"
  /\ CreateIds # {}
  /\ UpdateIds # {}
  /\ DeleteIds # {}
  /\ UnchangedIds # {}

\* the classification by sets
RefCreate ==
  {l \in SeqToSet(localData.projects) : l.id \notin IdsOf(prodData.projects)}

RefDelete ==
  {q \in SeqToSet(prodData.projects) : q.id \notin IdsOf(localData.projects)}

RefUpdate ==
  {[local |-> l, prod |-> q] :
     <<l, q>> \in {lq \in SeqToSet(localData.projects) \X SeqToSet(prodData.projects) :
                     lq[1].id = lq[2].id /\ lq[1] # lq[2]}}

\* C6: the computed plan is the classification by sets: toCreate lists, once
\* each, the local records whose id production lacks, toDelete the production
\* records whose id the local side lacks, and toUpdate the (local, production)
\* pairs of one id whose two records are not the same.
C6_PlanIsReference ==
  pc = "compared" =>
    /\ SeqToSet(plan.toCreate) = RefCreate
    /\ Len(plan.toCreate) = Cardinality(RefCreate)
    /\ SeqToSet(plan.toDelete) = RefDelete
    /\ Len(plan.toDelete) = Cardinality(RefDelete)
    /\ SeqToSet(plan.toUpdate) = RefUpdate
    /\ Len(plan.toUpdate) = Cardinality(RefUpdate)

\* local {1,2,3}, production {2,3,4}, record 2 differing in its name
C6_Witness ==
  /\ pc = "compared"
  /\ localData.projects = <<Project(1, "a", JSstr("c"), StagesA),
                            Project(2, "b", JSstr("c"), StagesA),
                            Project(3, "a", JSstr("c"), StagesA)>>
  /\ prodData.projects = <<Project(2, "a", JSstr("c"), StagesA),
                           Project(3, "a", JSstr("c"), StagesA),
                           Project(4, "a", JSstr("c"), StagesA)>>
  /\ CreateIds = {1}
  /\ UpdateIds = {2}
  /\ DeleteIds = {4}

\* C7: a sync run whose local snapshot is identical to the production
\* snapshot it fetched computes the empty plan, reports "already in sync",
\* asks nothing and issues no create, update or delete request.
C7_IdenticalIsNoOp ==
  (script = "sync" /\ "summary" \in out /\ localData = prodData) =>
    /\ plan = EmptyPlan
    /\ "in-sync" \in out
    /\ pc = "done"
    /\ answers = <<>>
    /\ "starting" \notin out
    /\ NoMutationCalls

C7_Witness ==
  /\ script = "sync"
  /\ "in-sync" \in out
  /\ localData = prodData
  /\ Len(localData.projects) >= 2
  /\ pc = "done"

\* the requests a plan stands for, in the order create, update, delete
PlannedSync ==
  [i \in 1..Len(plan.toCreate) |-> <<"POST", plan.toCreate[i].id>>]
  \o [i \in 1..Len(plan.toUpdate) |-> <<"PUT", plan.toUpdate[i].local.id>>]
  \o [i \in 1..Len(plan.toDelete) |-> <<"DELETE", plan.toDelete[i].id>>]

FailedCalls == SelectSeq(calls, LAMBDA c : IsMutation(c) /\ ~c.ok)

\* C8: in a confirmed sync run the requests issued are always the planned
\* ones up to the current position, each failed one is counted in failCount,
\* and the run only ends, normally, once every planned request has been
\* issued: no failure aborts it.
C8_SyncFailureContained ==
  (script = "sync" /\ "starting" \in out) =>
    /\ IsPrefix(Issued, PlannedSync)
    /\ failCount = Len(FailedCalls)
    /\ successCount + failCount = Len(Issued)
    /\ pc \in {"finish", "done"} =>
         (Issued = PlannedSync /\ exitCode = 0)
    /\ pc = "done" => "complete" \in out

C8_Witness ==
  /\ script = "sync"
  /\ pc = "done"
  /\ "complete" \in out
  /\ \E i, j \in 1..Len(calls) :
       /\ i < j
       /\ IsMutation(calls[i]) /\ ~calls[i].ok
       /\ IsMutation(calls[j]) /\ calls[j].ok

\* the requests of the two passes of a replace run
PlannedReplace ==
  [i \in 1..Len(prodData.projects) |-> <<"DELETE", prodData.projects[i].id>>]
  \o [i \in 1..Len(localData.projects) |-> <<"POST", localData.projects[i].id>>]

\* C9: in a confirmed replace run the requests issued are always the planned
\* ones up to the current position (one DELETE per fetched production record,
\* then one CREATE per local record), the failures are counted, and the run
\* reaches the verification only after all of them.
C9_ReplaceEveryRecordOnce ==
  (script = "replace" /\ "starting" \in out) =>
    /\ IsPrefix(Issued, PlannedReplace)
    /\ deleteResults.failed + createResults.failed = Len(FailedCalls)
    /\ deleteResults.deleted + deleteResults.failed
       + createResults.created + createResults.failed = Len(Issued)
    /\ pc \in {"verify", "done"} =>
         /\ Issued = PlannedReplace
         /\ \A id \in IdsOf(prodData.projects) :
              Len(SelectSeq(Issued, LAMBDA c : c = <<"DELETE", id>>)) = 1
         /\ \A id \in IdsOf(localData.projects) :
              Len(SelectSeq(Issued, LAMBDA c : c = <<"POST", id>>)) = 1
    /\ pc = "done" => "complete" \in out

C9_Witness ==
  /\ script = "replace"
  /\ pc = "done"
  /\ \E i, j, k \in 1..Len(calls) :
       /\ i < j /\ j < k
       /\ calls[i].method = "DELETE" /\ ~calls[i].ok
       /\ calls[j].method = "DELETE"
       /\ calls[k].method = "POST" /\ ~calls[k].ok
  /\ \E i \in 1..Len(calls) : calls[i].method = "POST" /\ calls[i].ok

\* C10: in both scripts, once local-data.json has been found missing, or the
\* initial fetch of production data has failed, the run is over with exit
\* status 1 and without any create, update or delete request.
C10_PreconditionFatal ==
  (\/ pc # "load" /\ localFile.state = "missing"
   \/ Len(calls) >= 1 /\ ~calls[1].ok)
  => (pc = "done" /\ exitCode = 1 /\ NoMutationCalls)

C10_Witness ==
  /\ script = "sync"
  /\ Len(calls) = 1
  /\ ~calls[1].ok
  /\ Len(localData.projects) >= 1
  /\ prodStore.projects # {}
  /\ pc = "done"

\* C11: a replace run without --confirm gets past its prompts only when the
\* first answer is exactly REPLACE and the second answer is exactly YES.
C11_ExactPhrases ==
  (script = "replace" /\ ~autoConfirm /\ "starting" \in out) =>
    answers = <<"REPLACE", "YES">>

\* C12: a sync run without --confirm gets past its prompt only when the answer
\* is exactly yes.
C12_ExactYes ==
  (script = "sync" /\ ~autoConfirm /\ "starting" \in out) =>
    answers = <<"yes">>

\* C13: with --confirm no answer is ever read and no run is cancelled: a sync
\* run with a non-empty plan, and a replace run whose backup is written, have
\* started their loops straight away.
C13_AutoConfirmSkipsPrompts ==
  autoConfirm =>
    /\ answers = <<>>
    /\ pc \notin {"prompt", "prompt1", "prompt2"}
    /\ "cancelled" \notin out
    /\ (script = "sync" /\ "summary" \in out /\ ~alreadyInSync(plan))
         => "starting" \in out
    /\ (script = "replace" /\ backupFile.written) => "starting" \in out

C13_Witness ==
  /\ autoConfirm
  /\ script = "replace"
  /\ pc = "done"
  /\ answers = <<>>
  /\ \E i, j \in 1..Len(calls) : calls[i].method = "DELETE" /\ calls[j].method = "POST"

\* C14: no step of a sync or replace run changes the production settings, and
\* every create, update or delete request issued addresses a project: there is
\* no settings request, also when settingsChanged is true.
C14_SettingsNeverMutated ==
  /\ [](\A i \in 1..Len(calls) : IsMutation(calls[i]) => calls[i].id \in Ids)
  /\ [][prodStore'.settings = prodStore.settings]_vars

C14_Witness ==
  /\ script = "sync"
  /\ pc = "done"
  /\ "complete" \in out
  /\ plan.settingsChanged
  /\ Len(Issued) >= 1
  /\ prodStore.settings # localData.settings

\* C15: once a replace run has completed, the production settings are the
\* local settings.
C15_ReplaceUpdatesSettings ==
  (script = "replace" /\ pc = "done" /\ "verified" \in out) =>
    prodStore.settings = localData.settings

\* C16: a sync run that found the settings different has, when it ends, told
\* the operator that settings cannot be applied, and has not announced that
\* they will be updated.
C16_SettingsLimitationSurfaced ==
  (script = "sync" /\ pc = "done" /\ plan.settingsChanged) =>
    /\ "settings-not-implemented" \in out
    /\ "settings-will-be-updated" \notin out

\* C17: settingsChanged is true exactly when the two settings objects differ;
\* when the snapshots differ in their settings only, the run is not reported
\* in sync, asks for confirmation (unless --confirm), issues no create, update
\* or delete request, and a confirmed run ends stating that settings could not
\* be applied.
C17_SettingsOnlyDifference ==
  (script = "sync" /\ "summary" \in out) =>
    /\ plan.settingsChanged = (localData.settings # prodData.settings)
    /\ (localData.projects = prodData.projects
        /\ localData.settings # prodData.settings) =>
         /\ "in-sync" \notin out
         /\ ~autoConfirm => (pc = "prompt" \/ Len(answers) = 1)
         /\ NoMutationCalls
         /\ (pc = "done" /\ "starting" \in out) =>
              ("settings-not-implemented" \in out /\ "complete" \in out
               /\ successCount = 0 /\ failCount = 0)

C17_Witness ==
  /\ script = "sync"
  /\ ~autoConfirm
  /\ answers = <<"yes">>
  /\ pc = "done"
  /\ Len(localData.projects) >= 1
  /\ localData.projects = prodData.projects
  /\ localData.settings.colorMap # prodData.settings.colorMap
  /\ "settings-not-implemented" \in out

\* a failure no run recovers from: local-data.json missing or unreadable, a
\* failed fetch of production data, or a backup that could not be written
Unrecoverable ==
  \/ localFile.state \in {"missing", "corrupt"}
  \/ \E i \in 1..Len(calls) : calls[i].method = "GET" /\ ~calls[i].ok
  \/ script = "replace" /\ Len(calls) >= 1 /\ ~backupFile.written

\* C18: a run that ended cancelled at a prompt has exit status 0; a run that
\* ended on an unrecoverable failure has a non-zero exit status.
C18_ExitStatus ==
  pc = "done" =>
    /\ "cancelled" \in out => exitCode = 0
    /\ Unrecoverable => exitCode # 0

C18_Witness ==
  /\ script = "replace"
  /\ pc = "done"
  /\ "cancelled" \in out
  /\ Len(answers) = 2
  /\ backupFile.written
  /\ exitCode = 0

\* C19: a sync or replace run that ended with at least one failed create,
\* update or delete has a non-zero exit status.
C19_FailedMeansNonZero ==
  (/\ pc = "done"
   /\ "complete" \in out
   /\ \/ script = "sync" /\ failCount > 0
      \/ script = "replace" /\ deleteResults.failed + createResults.failed > 0)
  => exitCode # 0

\* the production row of an id, as GET /api/data would return it
StoredProjects(id) == {RowToProject(r) : r \in {q \in prodStore.projects : q.id = id}}

\* C20: in a sync run no create, update or delete request is ever issued for
\* an id whose local and production records are the same, and the production
\* row of that id stays what it was when production was fetched.
C20_UnchangedUntouched ==
  (script = "sync" /\ "summary" \in out) =>
    \A id \in UnchangedIds :
      /\ \A i \in 1..Len(calls) : IsMutation(calls[i]) => calls[i].id # id
      /\ StoredProjects(id) = {q \in SeqToSet(prodData.projects) : q.id = id}

C20_Witness ==
  /\ script = "sync"
  /\ pc = "done"
  /\ "complete" \in out
  /\ UnchangedIds # {}
  /\ successCount >= 2

\* every create, update or delete request of the run so far was answered ok
AllSucceeded == \A i \in 1..Len(calls) : IsMutation(calls[i]) => calls[i].ok

\* C22: once a confirmed replace run whose deletes and creates all succeeded
\* has finished its two passes, the set of production records is the set of
\* local records: no production record that is absent locally remains.
C22_ReplaceMirrors ==
  (/\ script = "replace"
   /\ "starting" \in out
   /\ pc \in {"verify", "done"}
   /\ AllSucceeded)
  => /\ SeqToSet(getData(prodStore).projects) = SeqToSet(localData.projects)
     /\ IdsOf(getData(prodStore).projects) = IdsOf(localData.projects)

C22_Witness ==
  /\ script = "replace"
  /\ "starting" \in out
  /\ pc = "done"
  /\ AllSucceeded
  /\ \E i \in 1..Len(calls) : calls[i].method = "POST"
  /\ \E p \in SeqToSet(prodData.projects) : p.id \notin IdsOf(localData.projects)
  /\ \E p \in SeqToSet(prodData.projects) : p.id \in IdsOf(localData.projects)

\* two records that differ at most in the order of the keys of stages
sameUpToKeyOrder(a, b) ==
  /\ a.id = b.id
  /\ a.name = b.name
  /\ a.client = b.client
  /\ SeqToSet(a.stages) = SeqToSet(b.stages)

\* C23: a local record and the production record of the same id whose
\* attributes are all equal, and whose stages hold the same entries in whatever
\* key order, are classified unchanged: the id is not in the update list.
C23_KeyOrderNormalized ==
  pc = "compared" =>
    \A l \in SeqToSet(localData.projects), p \in SeqToSet(prodData.projects) :
      sameUpToKeyOrder(l, p) => l.id \notin UpdateIds

\* the file BACKUP_FILE is on disk and holds the snapshot this run fetched
BackupOnDisk ==
  /\ backupFile.written
  /\ \E f \in files : f.name = BACKUP_FILE /\ f.data = prodData /\ f.by = self

\* the first phrase was mistyped, or the second answer was refused
ReplaceRefused ==
  /\ Len(answers) >= 1
  /\ \/ answers[1] # "REPLACE"
     \/ Len(answers) = 2 /\ ~secondAccepted(answers[2])

\* C25: a replace run that stands at either prompt has its backup file on
\* disk already; a run whose first phrase was mistyped or whose second answer
\* was refused is over with the backup file on disk, no delete and no create
\* performed, production as it was fetched, and the cancellation reported.
C25_CancelKeepsBackup ==
  script = "replace" =>
    /\ pc \in {"prompt1", "prompt2"} => BackupOnDisk
    /\ ReplaceRefused =>
         /\ pc = "done"
         /\ BackupOnDisk
         /\ NoMutationCalls
         /\ deleteResults = [deleted |-> 0, failed |-> 0]
         /\ createResults = [created |-> 0, failed |-> 0]
         /\ getData(prodStore) = prodData
         /\ "cancelled" \in out

C25_Witness ==
  /\ script = "replace"
  /\ answers = <<"replace">>
  /\ pc = "done"
  /\ "cancelled" \in out
  /\ BackupOnDisk
  /\ Len(prodData.projects) > Len(localData.projects)
  /\ Len(localData.projects) >= 1

\* C27: in a sync run whose local snapshot has no projects while the fetched
\* production snapshot has at least one, the plan has no creates, no updates,
\* and its deletes are the production records; once the confirmed run is
\* through its loops it has issued one DELETE per production record, in
\* order, and no other mutation.
C27_EmptyLocalAllDeletes ==
  (/\ script = "sync"
   /\ Len(localData.projects) = 0
   /\ Len(prodData.projects) >= 1)
  => /\ plan.toCreate = <<>>
     /\ plan.toUpdate = <<>>
     /\ plan.toDelete = prodData.projects
     /\ ("starting" \in out /\ pc \in {"finish", "done"}) =>
          Issued = [i \in 1..Len(prodData.projects) |->
                      <<"DELETE", prodData.projects[i].id>>]

C27_Witness ==
  /\ script = "sync"
  /\ Len(localData.projects) = 0
  /\ Len(prodData.projects) >= 2
  /\ "starting" \in out
  /\ pc = "done"
  /\ Len(Issued) = Len(prodData.projects)
  /\ prodStore.projects = {}

\* C24: within a run at most one remote request is in flight, and while one is
\* in flight the script is suspended in its await, so that the next request
\* is issued only after the answer to the previous one has arrived.
C24_OneRequestInFlight ==
  /\ inflight \in {0, 1}
  /\ awaiting <=> inflight = 1

C24_Witness ==
  /\ script \in {"sync", "replace"}
  /\ inflight = 1
  /\ awaiting
  /\ pc = "delete"
  /\ Len(calls) >= 2
  /\ calls[Len(calls)].method \in {"POST", "PUT", "DELETE"}

\* C30: when the fetch of backup-data.js throws or is answered with a status
\* that is not ok, the run is over with a non-zero exit status and a failure
\* message, and it has written no file: backup-data.json is absent, or is the
\* file an earlier run left, unchanged.
C30_BackupFailsLoudly ==
  (script = "backup" /\ Len(calls) >= 1 /\ ~calls[1].ok)
  => /\ pc = "done"
     /\ exitCode # 0
     /\ "failed" \in out
     /\ files \subseteq {OldBackup}
     /\ \A f \in files : f.by # self

C30_Witness ==
  /\ script = "backup"
  /\ Len(calls) = 1
  /\ ~calls[1].ok
  /\ pc = "done"
  /\ exitCode = 1
  /\ files = {OldBackup}
  /\ prodStore.projects # {}

\* C28: in a sync run no two create, update or delete requests name the same
\* record id, and the three lists of the plan name every id at most once
\* between them, also when local-data.json lists an id more than once.
C28_OneMutationPerId ==
  script = "sync" =>
    /\ \A i, j \in 1..Len(calls) :
         (i # j /\ IsMutation(calls[i]) /\ IsMutation(calls[j]))
           => calls[i].id # calls[j].id
    /\ Cardinality(CreateIds) = Len(plan.toCreate)
    /\ Cardinality(UpdateIds) = Len(plan.toUpdate)
    /\ Cardinality(DeleteIds) = Len(plan.toDelete)
    /\ CreateIds \cap UpdateIds = {}
    /\ (CreateIds \cup UpdateIds) \cap DeleteIds = {}

C28_Witness ==
  /\ script = "sync"
  /\ pc = "done"
  /\ "complete" \in out
  /\ Len(localData.projects) = 3
  /\ localData.projects[1].id = localData.projects[3].id
  /\ localData.projects[1] # localData.projects[3]
  /\ \E i \in 1..Len(calls) :
       IsMutation(calls[i]) /\ calls[i].id = localData.projects[1].id
  /\ \E i \in 1..Len(calls) : calls[i].method = "DELETE"

\* the run before this one was a confirmed sync run that went through its
\* loops with every request answered ok
FirstRunClean ==
  /\ Len(others) = 1
  /\ others[1].script = "sync"
  /\ "starting" \in others[1].out
  /\ "complete" \in others[1].out
  /\ \A i \in 1..Len(others[1].calls) : others[1].calls[i].ok

\* C21: when sync is run again with the same local-data.json after a
\* confirmed sync run whose requests all succeeded, the plan it computes from
\* its fetch has no creates, no updates and no deletes.
C21_ResyncPlansNothing ==
  (/\ script = "sync"
   /\ FirstRunClean
   /\ Len(calls) >= 1
   /\ calls[1].ok)
  => /\ plan.toCreate = <<>>
     /\ plan.toUpdate = <<>>
     /\ plan.toDelete = <<>>

\* every process: the one executing and the ones kept in others
AllRuns == {RunLocals} \cup {others[i] : i \in 1..Len(others)}

\* C26: every replace run that has written its backup file still has that
\* file on disk with the snapshot it wrote, and two replace runs that have
\* written their backups have written files of different names.
C26_BackupWriteOnce ==
  /\ \A r \in AllRuns :
       (r.script = "replace" /\ r.backupFile.written) =>
         \E f \in files : /\ f.name = <<"production-backup", r.backupName>>
                          /\ f.by = r.self
                          /\ f.data = r.backupFile.data
  /\ \A r1, r2 \in AllRuns :
       (/\ r1.self # r2.self
        /\ r1.script = "replace" /\ r1.backupFile.written
        /\ r2.script = "replace" /\ r2.backupFile.written)
       => r1.backupName # r2.backupName

\* the create, update and delete requests a process has issued
IssuedOf(r) ==
  LET m == SelectSeq(r.calls, IsMutation)
  IN  [i \in 1..Len(m) |-> <<m[i].method, m[i].id>>]

\* the requests a process has planned from the snapshot it fetched itself
PlannedOf(r) ==
  IF r.script = "sync"
  THEN [i \in 1..Len(r.plan.toCreate) |-> <<"POST", r.plan.toCreate[i].id>>]
       \o [i \in 1..Len(r.plan.toUpdate) |-> <<"PUT", r.plan.toUpdate[i].local.id>>]
       \o [i \in 1..Len(r.plan.toDelete) |-> <<"DELETE", r.plan.toDelete[i].id>>]
  ELSE [i \in 1..Len(r.prodData.projects) |-> <<"DELETE", r.prodData.projects[i].id>>]
       \o [i \in 1..Len(r.localData.projects) |-> <<"POST", r.localData.projects[i].id>>]

\* a process that went through its loops with every request answered ok
CompletedClean(r) ==
  /\ r.pc = "done"
  /\ "complete" \in r.out
  /\ \A i \in 1..Len(r.calls) : r.calls[i].ok

\* C29: two runs at the same time are not coordinated.  Each issues the
\* requests it planned from its own fetch, whatever the other has done to
\* production since; the one thing left to rely on when both have completed
\* with every request answered ok is that production holds no id that is in
\* neither local snapshot.  (That production can then equal neither local
\* snapshot is what the witness shows.)
C29_RunsUncoordinated ==
  /\ \A r \in AllRuns : IsPrefix(IssuedOf(r), PlannedOf(r))
  /\ (\A r \in AllRuns : CompletedClean(r)) =>
       IdsOf(getData(prodStore).projects)
         \subseteq UNION {IdsOf(r.localData.projects) : r \in AllRuns}

C29_Witness ==
  /\ Len(others) = 1
  /\ \A r \in AllRuns :
       /\ CompletedClean(r)
       /\ Len(IssuedOf(r)) >= 1
       /\ IssuedOf(r) = PlannedOf(r)
       /\ SeqToSet(getData(prodStore).projects) # SeqToSet(r.localData.projects)
       /\ IdsOf(getData(prodStore).projects) # IdsOf(r.localData.projects)

\* the positions in calls of the requests of one method
CallsOf(method) == {i \in 1..Len(calls) : calls[i].method = method}

\* C31: in a confirmed replace run no DELETE follows a CREATE; the verifying
\* re-fetch is issued only when every local record has had its CREATE
\* attempt answered (and every fetched production record its DELETE), and
\* once answered it is the last request of the run.
C31_ReplaceOrder ==
  script = "replace" =>
    /\ \A i \in CallsOf("DELETE"), j \in CallsOf("POST") : i < j
    /\ pc = "verify" =>
         /\ Cardinality(CallsOf("DELETE")) = Len(prodData.projects)
         /\ Cardinality(CallsOf("POST")) = Len(localData.projects)
         /\ CallsOf("GET") = {1}
    /\ \A i \in CallsOf("GET") :
         i > 1 => /\ i = Len(calls)
                  /\ pc = "done"
                  /\ Cardinality(CallsOf("DELETE")) = Len(prodData.projects)
                  /\ Cardinality(CallsOf("POST")) = Len(localData.projects)

C31_Witness ==
  /\ script = "replace"
  /\ pc = "done"
  /\ Len(calls) >= 5
  /\ calls[Len(calls)].method = "GET"
  /\ Cardinality(CallsOf("DELETE")) >= 2
  /\ Cardinality(CallsOf("POST")) >= 1
  /\ \E i \in CallsOf("POST") : ~calls[i].ok

\* the ids of the DELETE requests issued so far
DeleteCallIds == {calls[i].id : i \in CallsOf("DELETE")}

\* C32: in every state of a replace run with at least one DELETE issued,
\* whether or not the run goes on from there, the backup file is on disk and
\* holds the fetched snapshot; the records the run deletes are the records
\* of that snapshot: every DELETE issued names an id of the file, the delete
\* pass runs over the ids of the file, and past the delete pass the ids of
\* the DELETE requests are the ids of the file.
C32_BackupCoversDeletes ==
  (script = "replace" /\ CallsOf("DELETE") # {}) =>
    \E f \in files :
      /\ f.name = BACKUP_FILE
      /\ f.by = self
      /\ f.data = prodData
      /\ DeleteCallIds \subseteq IdsOf(f.data.projects)
      /\ IdsOf(replaceList("delete", prodData, localData)) = IdsOf(f.data.projects)
      /\ pc # "delete" => DeleteCallIds = IdsOf(f.data.projects)
      /\ \A i \in CallsOf("DELETE") :
           \E p \in SeqToSet(f.data.projects) : p.id = calls[i].id

C32_Witness ==
  /\ script = "replace"
  /\ pc = "create"
  /\ Cardinality(CallsOf("DELETE")) >= 2
  /\ CallsOf("POST") = {}
  /\ prodStore.projects = {}
  /\ \E f \in files : f.name = BACKUP_FILE /\ Len(f.data.projects) >= 2

\* C33: for every update of a sync run that was answered ok, production holds
\* under that id the local version of the pair the plan carries: the row is
\* the one the handler stores for the local record, GET /api/data returns the
\* local record, and the production version of the pair is gone.
C33_UpdateSendsLocal ==
  script = "sync" =>
    \A i \in CallsOf("PUT") :
      calls[i].ok =>
        \E k \in 1..Len(plan.toUpdate) :
          LET pair == plan.toUpdate[k]
          IN  /\ pair.local.id = calls[i].id
              /\ pair.prod.id = calls[i].id
              /\ RowOf(pair.local) \in prodStore.projects
              /\ StoredProjects(calls[i].id) = {pair.local}
              /\ pair.prod \notin StoredProjects(calls[i].id)

C33_Witness ==
  /\ script = "sync"
  /\ pc = "done"
  /\ Cardinality(CallsOf("PUT")) >= 2
  /\ \E i \in CallsOf("PUT") : calls[i].ok
  /\ \E i \in CallsOf("PUT") : ~calls[i].ok

\* the requests of one method answered ok, and answered otherwise
OkCalls(method) == {i \in CallsOf(method) : calls[i].ok}
FailedCallsOf(method) == {i \in CallsOf(method) : ~calls[i].ok}

\* C34: in a confirmed sync run successCount + failCount is the number of
\* requests issued so far, successes and failures each counted once, and at
\* the end that is the number of planned operations; in a confirmed replace
\* run deleted + failed is the number of fetched production records once the
\* delete pass is over, and created + failed the number of local records
\* once the create pass is over.  A failure whose error body cannot be read
\* is one failure.
C34_CountersAddUp ==
  /\ script = "sync" =>
       /\ successCount = Cardinality(OkCalls("POST") \cup OkCalls("PUT") \cup OkCalls("DELETE"))
       /\ failCount = Cardinality(FailedCallsOf("POST") \cup FailedCallsOf("PUT")
                                    \cup FailedCallsOf("DELETE"))
       /\ ("starting" \in out /\ pc \in {"finish", "done"}) =>
            successCount + failCount
              = Len(plan.toCreate) + Len(plan.toUpdate) + Len(plan.toDelete)
  /\ script = "replace" =>
       /\ deleteResults.deleted = Cardinality(OkCalls("DELETE"))
       /\ deleteResults.failed = Cardinality(FailedCallsOf("DELETE"))
       /\ createResults.created = Cardinality(OkCalls("POST"))
       /\ createResults.failed = Cardinality(FailedCallsOf("POST"))
       /\ ("starting" \in out /\ pc \in {"create", "verify", "done"}) =>
            deleteResults.deleted + deleteResults.failed = Len(prodData.projects)
       /\ ("starting" \in out /\ pc \in {"verify", "done"}) =>
            createResults.created + createResults.failed = Len(localData.projects)

C34_Witness ==
  /\ script = "sync"
  /\ pc = "done"
  /\ "complete" \in out
  /\ successCount >= 1
  /\ failCount >= 1
  /\ successCount + failCount = 3
  /\ Len(plan.toCreate) >= 1
  /\ Len(plan.toDelete) >= 1

\* C35: a sync run fetches production once, before the prompt; from then on
\* its plan is the comparison of the local snapshot with that fetch, and the
\* requests it issues after the confirmation are the requests of that plan,
\* all of them by the end, whatever has been written to production in the
\* meantime.
C35_StalePlanExecuted ==
  (script = "sync" /\ "summary" \in out) =>
    /\ CallsOf("GET") = {1}
    /\ plan = computePlan(localData, prodData)
    /\ IsPrefix(Issued, PlannedSync)
    /\ ("starting" \in out /\ pc \in {"finish", "done"}) => Issued = PlannedSync

\* a record the other client created during the prompt under an id the plan
\* creates: the POST of the plan was issued all the same, and refused
C35_Witness ==
  /\ script = "sync"
  /\ pc = "done"
  /\ "complete" \in out
  /\ Issued = PlannedSync
  /\ plan # computePlan(localData, getData(prodStore))
  /\ \E i \in FailedCallsOf("POST") :
       /\ calls[i].id \in CreateIds
       /\ RowOf(OtherRecord(calls[i].id)) \in prodStore.projects
  /\ \E i \in OkCalls("PUT") : RowOf(plan.toUpdate[1].local) \in prodStore.projects

\* the step is the answer ok to a PUT or DELETE of the sync run for an id
\* that no production row has
OkOnMissingId ==
  /\ script = "sync"
  /\ Len(calls') = Len(calls) + 1
  /\ calls'[Len(calls')].method \in {"PUT", "DELETE"}
  /\ calls'[Len(calls')].ok
  /\ \A row \in prodStore.projects : row.id # calls'[Len(calls')].id

\* C36: a DELETE or PUT for an id that no production row has can be answered
\* ok; when it is, production is left as it was (the PUT creates no row) and
\* the sync run counts the operation in successCount, not in failCount.
C36_MissingIdIsSuccess ==
  [][OkOnMissingId =>
       /\ prodStore' = prodStore
       /\ successCount' = successCount + 1
       /\ failCount' = failCount]_vars

\* an update answered ok, counted as a success, for a record that production
\* does not hold
C36_Witness ==
  /\ script = "sync"
  /\ pc = "done"
  /\ failCount = 0
  /\ \E i \in OkCalls("PUT") : \A row \in prodStore.projects : row.id # calls[i].id
  /\ successCount = Cardinality(OkCalls("PUT")) + Cardinality(OkCalls("POST"))
                       + Cardinality(OkCalls("DELETE"))

\* the requests the run has to issue once confirmed
PlannedRun == IF script = "sync" THEN PlannedSync ELSE PlannedReplace

\* C37: every run of sync and of replace whose requests and prompts are all
\* answered comes to its end; a confirmed run that is at its end has issued
\* the requests of its plan, each one once and no other.
C37_Terminates ==
  /\ <>(pc = "done")
  /\ []((script \in {"sync", "replace"} /\ pc = "done" /\ "starting" \in out)
          => Issued = PlannedRun)

C37_Witness ==
  /\ script = "replace"
  /\ pc = "done"
  /\ "starting" \in out
  /\ Issued = PlannedRun
  /\ Len(Issued) >= 4
  /\ Len(answers) = 2
  /\ \E i \in 1..Len(calls) : ~calls[i].ok

\* the request the import owes each project of the backup file, in file
\* order: PUT for an id of the snapshot fetched at start, POST otherwise
MigratePlanned ==
  [i \in 1..Len(localData.projects) |->
     <<IF localData.projects[i].id \in IdsOf(prodData.projects) THEN "PUT" ELSE "POST",
       localData.projects[i].id>>]

\* a step of the import that sends a request
MigrateSends == script = "migrate" /\ calls' # calls

\* C38: migrate-data-smart issues one request per project of
\* backup-data.json, in file order, a PUT when the id is in the production
\* snapshot fetched at start and a POST otherwise; it issues no DELETE and
\* none of its requests touches a production record whose id is not in the
\* backup file; each answered request raises exactly one of created, updated
\* and failed, so that at the summary their sum is the number of backup
\* projects
C38_OneRequestPerProject ==
  /\ [](script = "migrate" =>
          /\ IsPrefix(Issued, MigratePlanned)
          /\ CallsOf("DELETE") = {}
          /\ created + updated + failed = Len(Issued)
          /\ created = Cardinality(OkCalls("POST"))
          /\ updated = Cardinality(OkCalls("PUT"))
          /\ pc = "import" => Len(Issued) = idx - 1
          /\ "migration-complete" \in out =>
               /\ Issued = MigratePlanned
               /\ created + updated + failed = Len(localData.projects))
  /\ [][MigrateSends =>
          \A r \in prodStore.projects :
            ~MapHas(localData.projects, r.id) => r \in prodStore'.projects]_vars

\* a finished import that sent a PUT and a POST, had a request refused and
\* left alone a production record that the file lacks
C38_Witness ==
  /\ script = "migrate" /\ pc = "done" /\ "migration-complete" \in out
  /\ CallsOf("PUT") # {} /\ CallsOf("POST") # {} /\ failed >= 1
  /\ \E r \in prodStore.projects : ~MapHas(localData.projects, r.id)

\* C39: when the initial check of production fails (fetch throws, the body
\* is not JSON, or the body has no projects list), migrate-data-smart stops
\* without reading the backup file and issues no POST and no PUT
C39_FailedCheckStops ==
  (script = "migrate" /\ Len(calls) >= 1 /\ ~calls[1].ok) =>
     /\ pc = "done"
     /\ "cannot-proceed" \in out
     /\ "read" \notin out /\ "migration-failed" \notin out
     /\ localData = EmptySnapshot
     /\ Len(calls) = 1
     /\ NoMutationCalls
     /\ created + updated + failed = 0

\* a failed check with a backup file of two or more projects on disk
C39_Witness ==
  /\ script = "migrate" /\ pc = "done"
  /\ Len(calls) = 1 /\ calls[1].method = "GET" /\ ~calls[1].ok
  /\ \E f \in files : f.name = MIGRATE_BACKUP /\ Len(f.data.projects) >= 2

====
